---- MODULE Spec2Model ----
(***************************************************************************)
(* A model of runxml, an in-situ DOM-style XML parser.                     *)
(*                                                                         *)
(* The parser (RunXML.Parse and everything it calls) is modelled as        *)
(* operators on a record s that holds the RunXML struct, the node and      *)
(* attribute stores and the return registers of the call in progress.      *)
(* Buffer positions are 0-based as in the Go source; data[i] of the source *)
(* is s.data[i + 1] here.  A Go run-time panic (index or slice out of      *)
(* range, nil dereference, explicit panic) is the fault "panic".           *)
(***************************************************************************)
EXTENDS Integers, Sequences, FiniteSets, TLC

Byte == 0..255

(* The characters the model writes buffers with, by their ASCII codes. *)
Code ==
  ("<" :> 60) @@ (">" :> 62) @@ ("/" :> 47) @@ ("?" :> 63) @@ ("!" :> 33) @@
  ("-" :> 45) @@ ("[" :> 91) @@ ("]" :> 93) @@ ("=" :> 61) @@ ("&" :> 38) @@
  (";" :> 59) @@ ("'" :> 39) @@ ("\"" :> 34) @@ ("\\" :> 92) @@ (" " :> 32) @@
  ("#" :> 35) @@ ("NUL" :> 0) @@ ("TAB" :> 9) @@ ("LF" :> 10) @@
  ("A" :> 65) @@ ("C" :> 67) @@ ("D" :> 68) @@ ("E" :> 69) @@ ("L" :> 76) @@
  ("M" :> 77) @@ ("O" :> 79) @@ ("P" :> 80) @@ ("T" :> 84) @@ ("X" :> 88) @@
  ("Y" :> 89) @@ ("F" :> 70) @@ ("N" :> 78) @@ ("S" :> 83) @@
  ("i" :> 105) @@ ("k" :> 107) @@ ("n" :> 110) @@ ("r" :> 114) @@
  ("a" :> 97) @@ ("b" :> 98) @@ ("c" :> 99) @@ ("d" :> 100) @@ ("e" :> 101) @@
  ("f" :> 102) @@ ("g" :> 103) @@ ("l" :> 108) @@ ("m" :> 109) @@
  ("o" :> 111) @@ ("p" :> 112) @@ ("q" :> 113) @@ ("s" :> 115) @@
  ("t" :> 116) @@ ("u" :> 117) @@ ("v" :> 118) @@ ("x" :> 120) @@
  ("y" :> 121) @@ ("z" :> 122) @@ ("1" :> 49) @@ ("2" :> 50) @@
  ("xEF" :> 239) @@ ("xBB" :> 187) @@ ("xBF" :> 191) @@
  ("xFF" :> 255) @@ ("xFE" :> 254)

(* The byte string written as a tuple of characters. *)
Bytes(chars) == [i \in 1..Len(chars) |-> Code[chars[i]]]

(***************************************************************************)
(* Byte classification tables                                              *)
(***************************************************************************)
lookupNodeName ==
  [b \in Byte |-> IF b \in {0, 9, 10, 13, 32, 47, 62, 63} THEN 0 ELSE 1]

lookupWhitespace ==
  [b \in Byte |-> IF b \in {9, 10, 13, 32} THEN 1 ELSE 0]

lookupAttributeName ==
  [b \in Byte |-> IF b \in {0, 9, 10, 13, 32, 33, 47, 60, 61, 62, 63} THEN 0 ELSE 1]

lookupAttributeDataSQ == [b \in Byte |-> IF b \in {0, 39} THEN 0 ELSE 1]

lookupAttributeDataSQPure == [b \in Byte |-> IF b \in {0, 38, 39} THEN 0 ELSE 1]

lookupAttributeDataDQ == [b \in Byte |-> IF b \in {0, 34} THEN 0 ELSE 1]

lookupAttributeDataDQPure == [b \in Byte |-> IF b \in {0, 34, 38} THEN 0 ELSE 1]

lookupTextPureNoWS == [b \in Byte |-> IF b \in {0, 38, 60} THEN 0 ELSE 1]

lookupText == [b \in Byte |-> IF b \in {0, 60} THEN 0 ELSE 1]

(***************************************************************************)
(* Values: errors, slices, nodes                                           *)
(***************************************************************************)
NoErr == "nil"

(* A byte slice of the buffer is the span [lo, hi) of positions it covers; *)
(* the nil slice covers none and is distinct from an empty slice.          *)
NilSlice == [lo |-> -1, hi |-> -1]

Slice(lo, hi) == [lo |-> lo, hi |-> hi]

(* The bytes a slice currently denotes in buffer data. *)
Content(data, sl) ==
  IF sl = NilSlice THEN << >> ELSE [i \in 1..(sl.hi - sl.lo) |-> data[sl.lo + i]]

NodeTypes ==
  {"Document", "Element", "Data", "Cdata", "Comment", "Declaration", "Doctype", "Pi"}

(* A zeroed GenericNode; node references are indices into s.nodes, nil is 0. *)
ZeroNode ==
  [NodeType |-> "Document", Name |-> NilSlice, Value |-> NilSlice, Parent |-> 0,
   firstChild |-> 0, lastChild |-> 0, firstAttribute |-> 0, lastAttribute |-> 0,
   prev |-> 0, next |-> 0]

(* A zeroed AttributeNode; attribute references are indices into s.attrs. *)
ZeroAttr ==
  [Name |-> NilSlice, Value |-> NilSlice, Parent |-> 0, prev |-> 0, next |-> 0]

(* The parser instance of NewDefaultRunXML, before any Parse call, with the *)
(* node stores and the registers of the model.                              *)
NewDefaultRunXML ==
  [ValidateClosingTag |-> TRUE, data |-> << >>, position |-> 0,
   nodes |-> << >>, attrs |-> << >>,
   fault |-> "none", err |-> NoErr, node |-> 0, c |-> 0, value |-> NilSlice,
   xstart |-> 0, trail |-> 0, xret |-> "none"]

Panic(s) == [s EXCEPT !.fault = "panic"]

Faulted(s) == s.fault # "none"

(* return nil, fmt.Errorf(msg) *)
Fail(s, msg) == [s EXCEPT !.node = 0, !.err = msg]

(***************************************************************************)
(* Cursor primitives                                                       *)
(***************************************************************************)
InBuf(s) == s.position >= 0 /\ s.position < Len(s.data)

(* r.data[r.position]; evaluated only where InBuf(s) holds. *)
getCurrentByte(s) == s.data[s.position + 1]

(* Advances the position and leaves the byte there, or 0 past the end, in s.c. *)
getNextByte(s) ==
  LET p == s.position + 1
  IN  [s EXCEPT !.position = p,
                !.c = IF p > Len(s.data) - 1 THEN 0 ELSE s.data[p + 1]]

skipBytes(s, n) ==
  IF Len(s.data) <= s.position + n
  THEN [s EXCEPT !.err = "end of file"]
  ELSE [s EXCEPT !.position = @ + n, !.err = NoErr]

RECURSIVE skipPastCharFrom(_, _, _)
skipPastCharFrom(data, b, p) ==
  LET q == p + 1
  IN  IF q >= Len(data) - 1 THEN [position |-> q, err |-> "unexpected end of data"]
      ELSE IF data[q + 1] = b THEN [position |-> q + 1, err |-> NoErr]
      ELSE skipPastCharFrom(data, b, q)

skipPastChar(s, b) ==
  LET r == skipPastCharFrom(s.data, b, s.position)
  IN  [s EXCEPT !.position = r.position, !.err = r.err]

RECURSIVE skipToCharFrom(_, _, _)
skipToCharFrom(data, b, p) ==
  LET q == p + 1
  IN  IF q >= Len(data) THEN [position |-> q, err |-> "unexpected end of data"]
      ELSE IF data[q + 1] = b THEN [position |-> q, err |-> NoErr]
      ELSE skipToCharFrom(data, b, q)

skipToChar(s, b) ==
  LET r == skipToCharFrom(s.data, b, s.position)
  IN  [s EXCEPT !.position = r.position, !.err = r.err]

(* bytes.HasPrefix(data[p:], lit), for 0 <= p <= len(data). *)
HasPrefixAt(data, p, lit) ==
  /\ p + Len(lit) <= Len(data)
  /\ \A i \in 1..Len(lit) : data[p + i] = lit[i]

(* r.sliceToEnd() panics when the position is past the end of the buffer. *)
SliceToEndPanics(s) == s.position < 0 \/ s.position > Len(s.data)

HasPrefix(s, lit) == HasPrefixAt(s.data, s.position, lit)

RECURSIVE skipToCharsFrom(_, _, _)
skipToCharsFrom(data, lit, p) ==
  IF p < Len(data)
  THEN IF HasPrefixAt(data, p, lit) THEN [position |-> p, err |-> NoErr]
       ELSE skipToCharsFrom(data, lit, p + 1)
  ELSE [position |-> p - 1, err |-> "unexpected end of file"]

(* Called with 0 <= position only. *)
skipToChars(s, lit) ==
  LET r == skipToCharsFrom(s.data, lit, s.position)
  IN  [s EXCEPT !.position = r.position, !.err = r.err]

RECURSIVE skipFrom(_, _, _)
skipFrom(data, table, p) ==
  IF p < Len(data)
  THEN IF table[data[p + 1]] # 1 THEN p ELSE skipFrom(data, table, p + 1)
  ELSE p - 1

(* skip: advance while the table classifies the byte; at the end of the    *)
(* buffer the position is lowered by one.                                  *)
skip(s, table) ==
  IF s.position < 0 /\ Len(s.data) > 0 THEN Panic(s)
  ELSE [s EXCEPT !.position = skipFrom(s.data, table, s.position)]

(* r.data[lo:hi]: panics unless 0 <= lo <= hi <= cap; the buffer's capacity *)
(* is taken to be its length.                                              *)
SlicePanics(s, lo, hi) == lo < 0 \/ lo > hi \/ hi > Len(s.data)

(***************************************************************************)
(* Tree model                                                              *)
(***************************************************************************)
(* newNode: a fresh zeroed slot of the node store, with its type set. *)
newNode(s, nodeType) ==
  [s EXCEPT !.nodes = Append(@, [ZeroNode EXCEPT !.NodeType = nodeType]),
            !.node = Len(s.nodes) + 1]

(* attributeArena.get(): a fresh zeroed attribute slot; its index is left  *)
(* in s.node.                                                              *)
attributeArenaGet(s) ==
  [s EXCEPT !.attrs = Append(@, ZeroAttr), !.node = Len(s.attrs) + 1]

(* AppendNode that leaves the new last child without its prev link. *)
AppendNodeLinksNoPrev(ns, g, child) ==
  IF ns[g].firstChild = 0
  THEN [ns EXCEPT ![g].firstChild = child, ![g].lastChild = child,
                  ![child].Parent = g]
  ELSE [ns EXCEPT ![ns[g].lastChild].next = child,
                  ![g].lastChild = child,
                  ![child].Parent = g]

(* g.AppendNode(child) on node store ns.  A nil child is dereferenced.     *)
AppendNodeLinks(ns, g, child) ==
  IF ns[g].firstChild = 0
  THEN [ns EXCEPT ![g].firstChild = child, ![g].lastChild = child,
                  ![child].Parent = g]
  ELSE [ns EXCEPT ![ns[g].lastChild].next = child,
                  ![child].prev = ns[g].lastChild,
                  ![g].lastChild = child,
                  ![child].Parent = g]

AppendNode(s, g, child) ==
  IF child = 0 THEN Panic(s)
  ELSE [s EXCEPT !.nodes = AppendNodeLinks(s.nodes, g, child)]

(* g.AppendAttribute(a) *)
AppendAttributeLinks(ns, as, g, a) ==
  IF ns[g].firstAttribute = 0
  THEN [as EXCEPT ![a].Parent = g]
  ELSE [as EXCEPT ![ns[g].lastAttribute].next = a,
                  ![a].prev = ns[g].lastAttribute,
                  ![a].Parent = g]

AppendAttribute(s, g, a) ==
  [s EXCEPT !.attrs = AppendAttributeLinks(s.nodes, s.attrs, g, a),
            !.nodes = [@ EXCEPT ![g].firstAttribute =
                                   IF @ = 0 THEN a ELSE @,
                                ![g].lastAttribute = a]]

(* g.PrependNode(child) *)
PrependNodeLinks(ns, g, child) ==
  IF ns[g].firstChild = 0
  THEN [ns EXCEPT ![g].lastChild = child, ![g].firstChild = child,
                  ![child].Parent = g]
  ELSE [ns EXCEPT ![ns[g].firstChild].prev = child,
                  ![child].next = ns[g].firstChild,
                  ![g].firstChild = child,
                  ![child].Parent = g]

PrependNode(s, g, child) ==
  IF child = 0 THEN Panic(s)
  ELSE [s EXCEPT !.nodes = PrependNodeLinks(s.nodes, g, child)]

(* g.InsertNode(where, child): the explicit panic and the nil dereferences *)
(* of where, child and where.prev end the call; child.prev and child.next  *)
(* are written before where.prev is dereferenced.                          *)
InsertNode(s, g, where, child) ==
  IF s.nodes[g].firstChild = where THEN PrependNode(s, g, child)
  ELSE IF where = 0 THEN Panic(s)
  ELSE IF s.nodes[where].Parent # g THEN Panic(s)
  ELSE IF child = 0 THEN Panic(s)
  ELSE IF s.nodes[where].prev = 0
  THEN Panic([s EXCEPT !.nodes = [@ EXCEPT ![child].prev = 0,
                                           ![child].next = where]])
  ELSE [s EXCEPT !.nodes = [@ EXCEPT ![child].prev = s.nodes[where].prev,
                                     ![child].next = where,
                                     ![s.nodes[where].prev].next = child,
                                     ![where].prev = child,
                                     ![child].Parent = g]]

(* g.RemoveFirstNode() *)
RemoveFirstNode(s, g) ==
  LET first == s.nodes[g].firstChild
      second == s.nodes[first].next
  IN  IF first = 0 THEN s
      ELSE IF second = 0
      THEN [s EXCEPT !.nodes = [@ EXCEPT ![g].firstChild = 0, ![g].lastChild = 0]]
      ELSE [s EXCEPT !.nodes = [@ EXCEPT ![g].firstChild = second,
                                         ![second].prev = 0]]

(* g.RemoveLastNode() *)
RemoveLastNode(s, g) ==
  LET last == s.nodes[g].lastChild
      before == s.nodes[last].prev
  IN  IF last = 0 THEN s
      ELSE IF before = 0
      THEN [s EXCEPT !.nodes = [@ EXCEPT ![g].lastChild = 0, ![g].firstChild = 0]]
      ELSE [s EXCEPT !.nodes = [@ EXCEPT ![g].lastChild = before,
                                         ![before].next = 0]]

(* g.RemoveNode(where): where.prev.next is written before where.next is    *)
(* dereferenced.                                                           *)
RemoveNode(s, g, where) ==
  IF where = s.nodes[g].firstChild THEN RemoveFirstNode(s, g)
  ELSE IF where = s.nodes[g].lastChild THEN RemoveLastNode(s, g)
  ELSE IF where = 0 THEN Panic(s)
  ELSE IF s.nodes[where].Parent # g THEN Panic(s)
  ELSE IF s.nodes[where].prev = 0 THEN Panic(s)
  ELSE LET t == [s EXCEPT !.nodes[s.nodes[where].prev].next = s.nodes[where].next]
       IN  IF s.nodes[where].next = 0 THEN Panic(t)
           ELSE [t EXCEPT !.nodes[s.nodes[where].next].prev = s.nodes[where].prev]

(* g.RemoveAllNodes() *)
RemoveAllNodes(s, g) ==
  [s EXCEPT !.nodes = [@ EXCEPT ![g].firstChild = 0, ![g].lastChild = 0]]

(* g.PrependAttribute(a): the last statement writes g.Parent. *)
PrependAttribute(s, g, a) ==
  IF s.nodes[g].firstAttribute = 0
  THEN [s EXCEPT !.nodes = [@ EXCEPT ![g].lastAttribute = a,
                                     ![g].firstAttribute = a,
                                     ![g].Parent = g]]
  ELSE IF a = 0 THEN Panic(s)
  ELSE [s EXCEPT !.attrs = [@ EXCEPT ![s.nodes[g].firstAttribute].prev = a,
                                     ![a].next = s.nodes[g].firstAttribute],
                 !.nodes = [@ EXCEPT ![g].firstAttribute = a,
                                     ![g].Parent = g]]

(* g.InsertAttribute(where, a) *)
InsertAttribute(s, g, where, a) ==
  IF s.nodes[g].firstAttribute = where THEN PrependAttribute(s, g, a)
  ELSE IF where = 0 THEN Panic(s)
  ELSE IF s.attrs[where].Parent # g THEN Panic(s)
  ELSE IF a = 0 THEN Panic(s)
  ELSE IF s.attrs[where].prev = 0
  THEN Panic([s EXCEPT !.attrs = [@ EXCEPT ![a].prev = 0, ![a].next = where]])
  ELSE [s EXCEPT !.attrs = [@ EXCEPT ![a].prev = s.attrs[where].prev,
                                     ![a].next = where,
                                     ![s.attrs[where].prev].next = a,
                                     ![where].prev = a,
                                     ![a].Parent = g]]

(***************************************************************************)
(* Entity expansion                                                        *)
(***************************************************************************)
(* Sequencing of calls: a faulted call ends the run, otherwise the rest    *)
(* runs on the state it left.                                              *)
Then(t, rest(_)) == IF Faulted(t) THEN t ELSE rest(t)

(* The end of one iteration of the expansion loop: read the next byte,     *)
(* return nil on 0, otherwise advance the trail cursor.                    *)
expandNext(s) ==
  LET t == getNextByte(s)
  IN  IF t.c = 0 THEN [t EXCEPT !.xret = "nil"]
      ELSE [t EXCEPT !.trail = @ + 1, !.xret = "loop"]

(* data[trail] = b *)
overwrite(s, b) ==
  IF s.trail < 0 \/ s.trail >= Len(s.data) THEN Panic(s)
  ELSE [s EXCEPT !.data[s.trail + 1] = b]

(* The reference after '&', the byte after it already read into s.c. *)
expandReference(s) ==
  LET t == skipBytes(s, 1)
  IN  CASE s.c = Code["a"] ->
             IF t.err = NoErr /\ HasPrefix(t, Bytes(<<"m", "p", ";">>))
             THEN [t EXCEPT !.position = @ + 2]
             ELSE IF HasPrefix(t, Bytes(<<"p", "o", "s", ";">>))
             THEN [overwrite(t, Code["\\"]) EXCEPT !.position = @ + 3]
             ELSE t
        [] s.c = Code["q"] ->
             IF t.err = NoErr /\ HasPrefix(t, Bytes(<<"u", "o", "t", ";">>))
             THEN [t EXCEPT !.position = @ + 3]
             ELSE t
        [] s.c = Code["g"] ->
             IF t.err = NoErr /\ HasPrefix(t, Bytes(<<"t", ";">>))
             THEN [overwrite(t, Code[">"]) EXCEPT !.position = @ + 1]
             ELSE t
        [] s.c = Code["l"] ->
             IF t.err = NoErr /\ HasPrefix(t, Bytes(<<"t", ";">>))
             THEN [overwrite(t, Code["<"]) EXCEPT !.position = @ + 1]
             ELSE t
        [] s.c = 0 -> Panic(s)
        [] OTHER -> [s EXCEPT !.trail = @ + 1]

(* Line 547-549: a byte of the run is copied down when the trail lags. *)
copyDown(s) ==
  IF s.trail < s.position THEN overwrite(s, s.data[s.position + 1]) ELSE s

(* One iteration of the loop of skipAndExpandCharacterRefs, entered with   *)
(* the current byte in s.c and stopPred[s.c] = 1.                          *)
expandBody(s) ==
  IF s.c = Code["&"]
  THEN Then(expandReference(getNextByte(s)), expandNext)
  ELSE Then(copyDown(s), expandNext)

(* The start of the run taken after the fast path instead of before it. *)
expandBeginLateStart(s, stopPredPure) ==
  LET t == skip(s, stopPredPure)
  IN  IF Faulted(t) THEN t
      ELSE IF ~InBuf(t) THEN Panic(t)
      ELSE [t EXCEPT !.xstart = t.position, !.trail = t.position,
                     !.c = getCurrentByte(t), !.xret = "loop"]

(* Lines 509-512: the fast path and the loop's initialisation. *)
expandBegin(s, stopPredPure) ==
  LET t == skip(s, stopPredPure)
  IN  IF Faulted(t) THEN t
      ELSE IF ~InBuf(t) THEN Panic(t)
      ELSE [t EXCEPT !.xstart = s.position, !.trail = t.position,
                     !.c = getCurrentByte(t), !.xret = "loop"]

(* Line 555: return r.data[start:trail] *)
expandReturn(s) ==
  IF SlicePanics(s, s.xstart, s.trail) THEN Panic(s)
  ELSE [s EXCEPT !.value = Slice(s.xstart, s.trail), !.xret = "value"]

RECURSIVE expandLoop(_, _)
expandLoop(s, stopPred) ==
  IF stopPred[s.c] # 1 THEN expandReturn(s)
  ELSE Then(expandBody(s),
            LAMBDA t : IF t.xret = "nil" THEN [t EXCEPT !.value = NilSlice]
                       ELSE expandLoop(t, stopPred))

skipAndExpandCharacterRefs(s, stopPred, stopPredPure) ==
  Then(expandBegin(s, stopPredPure), LAMBDA t : expandLoop(t, stopPred))

(***************************************************************************)
(* The parser                                                              *)
(***************************************************************************)
(* parseAndAppendData, lines 564-569: the data node is linked in. *)
appendData(s, parent) ==
  LET u == newNode(s, "Data")
      w == [u EXCEPT !.nodes[u.node].Value = s.value,
                     !.nodes[parent].Value = s.value]
  IN  [AppendNode(w, parent, u.node) EXCEPT !.err = NoErr]

(* parseAndAppendData adds a data node to the parent node. *)
parseAndAppendData(s, parent) ==
  Then(skipAndExpandCharacterRefs(s, lookupText, lookupTextPureNoWS),
       LAMBDA t : IF t.value = NilSlice THEN Fail(t, "unable to append data node")
                  ELSE appendData(t, parent))

(* parseAttributes, lines 151-153: the attribute node named data[start:position] *)
(* is appended to the element; its index is left in s.node.                   *)
newAttribute(s, start, element) ==
  LET t == attributeArenaGet(s)
  IN  IF SlicePanics(s, start, s.position) THEN Panic(s)
      ELSE AppendAttribute([t EXCEPT !.attrs[t.node].Name = Slice(start, s.position)],
                           element, t.node)

(* parseAttributes, lines 173-179: the value between quotes q. *)
attributeValue(s, q) ==
  IF q = Code["'"]
  THEN skipAndExpandCharacterRefs(s, lookupAttributeDataSQ, lookupAttributeDataSQPure)
  ELSE skipAndExpandCharacterRefs(s, lookupAttributeDataDQ, lookupAttributeDataDQPure)

(* The attribute loop of parseAttributes, from its loop condition. *)
RECURSIVE parseAttributes(_, _)
parseAttributes(s, element) ==
  IF ~InBuf(s) THEN Panic(s)
  ELSE IF lookupAttributeName[getCurrentByte(s)] # 1 THEN [s EXCEPT !.err = NoErr]
  ELSE
    Then(skip([s EXCEPT !.position = @ + 1], lookupAttributeName), LAMBDA s1 :
    Then(newAttribute(s1, s.position, element), LAMBDA s3 :
    Then(skip(s3, lookupWhitespace), LAMBDA s4 :
      IF ~InBuf(s4) THEN Panic(s4)
      ELSE IF getCurrentByte(s4) # Code["="] THEN Fail(s4, "expected '='")
      ELSE
    Then(skip([s4 EXCEPT !.position = @ + 1], lookupWhitespace), LAMBDA s5 :
      IF ~InBuf(s5) THEN Panic(s5)
      ELSE IF getCurrentByte(s5) \notin {Code["'"], Code["\""]}
      THEN Fail(s5, "expected ' or \"")
      ELSE
    Then(attributeValue([s5 EXCEPT !.position = @ + 1], getCurrentByte(s5)), LAMBDA s7 :
      IF s7.value = NilSlice THEN Fail(s7, "error parsing attribute value")
      ELSE IF ~InBuf(s7) THEN Panic(s7)
      ELSE IF getCurrentByte(s7) # getCurrentByte(s5)
      THEN Fail([s7 EXCEPT !.attrs[s3.node].Value = s7.value], "expected end quote")
      ELSE
    Then(skip([s7 EXCEPT !.attrs[s3.node].Value = s7.value, !.position = @ + 1],
              lookupWhitespace), LAMBDA s9 :
      parseAttributes(s9, element)))))))

(* parseDocType: the bracket-depth loop entered after a '['. *)
RECURSIVE docTypeBrackets(_, _, _)
docTypeBrackets(s, depth, insideElement) ==
  IF depth <= 0 THEN s
  ELSE IF ~InBuf(s) THEN Panic(s)
  ELSE
    LET c  == getCurrentByte(s)
        d  == IF c = Code["["] /\ ~insideElement THEN depth + 1
              ELSE IF c = Code["]"] /\ ~insideElement THEN depth - 1
              ELSE depth
        i1 == IF c = Code[">"] THEN FALSE ELSE insideElement
        i2 == IF HasPrefix(s, Bytes(<<"<", "!">>)) THEN TRUE ELSE i1
    IN  docTypeBrackets(getNextByte(s), d, i2)

(* parseDocType: the loop up to the closing '>'. *)
RECURSIVE docTypeScan(_)
docTypeScan(s) ==
  IF ~InBuf(s) THEN Panic(s)
  ELSE IF getCurrentByte(s) = Code[">"] THEN [s EXCEPT !.err = NoErr]
  ELSE IF getCurrentByte(s) = Code["["]
  THEN Then(docTypeBrackets(skipBytes(s, 1), 1, FALSE), docTypeScan)
  ELSE LET t == skipBytes(s, 1)
       IN  IF t.err # NoErr THEN Fail(t, t.err) ELSE docTypeScan(t)

(* Lines 325-328, 351-352, 371-372, 393-394: a node of the given type whose *)
(* Name or Value is data[lo:hi].                                            *)
newNodeWith(s, nodeType, field, lo, hi) ==
  IF SlicePanics(s, lo, hi) THEN Panic(s)
  ELSE LET u == newNode(s, nodeType)
       IN  IF field = "Name" THEN [u EXCEPT !.nodes[u.node].Name = Slice(lo, hi)]
           ELSE [u EXCEPT !.nodes[u.node].Value = Slice(lo, hi)]

(* parseDocType returns the Doctype node. *)
parseDocType(s) ==
  Then(docTypeScan(s), LAMBDA t :
    IF t.err # NoErr THEN t
    ELSE Then(newNodeWith(t, "Doctype", "Value", s.position, t.position), LAMBDA u :
           [skipBytes(u, 1) EXCEPT !.err = NoErr]))

parseXMLDeclaration(s) ==
  Then(skip(newNode(s, "Declaration"), lookupWhitespace), LAMBDA s2 :
  Then(parseAttributes(s2, s2.node), LAMBDA s3 :
    IF SliceToEndPanics(s3) THEN Panic(s3)
    ELSE IF ~HasPrefix(s3, Bytes(<<"?", ">">>))
    THEN Fail([s3 EXCEPT !.position = @ + 2], "unexpected end of xml declaration")
    ELSE [s3 EXCEPT !.position = @ + 2, !.node = s2.node, !.err = NoErr]))

(* parsePI returns a Program Instruction node. *)
parsePI(s) ==
  Then(skip(s, lookupNodeName), LAMBDA s1 :
    IF s.position = s1.position THEN Fail(s1, "expected PI target")
    ELSE
  Then(newNodeWith(s1, "Pi", "Name", s.position, s1.position), LAMBDA s2 :
  Then(skip(s2, lookupWhitespace), LAMBDA s3 :
    LET s4 == skipToChars(s3, Bytes(<<"?", ">">>))
    IN  IF s4.err # NoErr THEN Fail(s4, s4.err)
        ELSE IF SlicePanics(s4, s3.position, s4.position) THEN Panic(s4)
        ELSE [s4 EXCEPT !.nodes[s2.node].Value = Slice(s3.position, s4.position),
                        !.position = @ + 2, !.node = s2.node, !.err = NoErr])))

(* parseCDATA creates a CDATA node. *)
parseCDATA(s) ==
  LET t == skipToChars(s, Bytes(<<"]", "]">>))
  IN  IF t.err # NoErr THEN Fail(t, t.err)
      ELSE [newNodeWith(t, "Cdata", "Value", s.position, t.position) EXCEPT !.err = NoErr]

(* parseComment: the scan for the first "--". *)
RECURSIVE commentScan(_)
commentScan(s) ==
  IF SliceToEndPanics(s) THEN Panic(s)
  ELSE IF HasPrefix(s, Bytes(<<"-", "-">>)) THEN [s EXCEPT !.err = NoErr]
  ELSE LET t == skipBytes(s, 1)
       IN  IF t.err # NoErr THEN Fail(t, "unexpected end of file")
           ELSE commentScan(t)

(* parseComment without the test for '>' after the first "--". *)
parseCommentAnyEnd(s) ==
  Then(commentScan(s), LAMBDA s1 :
    IF s1.err # NoErr THEN s1
    ELSE LET s2 == skipBytes(s1, 2)
         IN  IF s2.err # NoErr THEN Fail(s2, "unexpected end of file")
             ELSE IF ~InBuf(s2) THEN Panic(s2)
             ELSE Then(newNodeWith(s2, "Comment", "Value", s.position, s2.position - 2),
                       LAMBDA u : [skipBytes(u, 1) EXCEPT !.err = NoErr]))

(* parseComment creates the Comment node. *)
parseComment(s) ==
  Then(commentScan(s), LAMBDA s1 :
    IF s1.err # NoErr THEN s1
    ELSE LET s2 == skipBytes(s1, 2)
         IN  IF s2.err # NoErr THEN Fail(s2, "unexpected end of file")
             ELSE IF ~InBuf(s2) THEN Panic(s2)
             ELSE IF getCurrentByte(s2) # Code[">"]
             THEN Fail(s2, "invalid '--' inside comment")
             ELSE Then(newNodeWith(s2, "Comment", "Value", s.position, s2.position - 2),
                       LAMBDA u : [skipBytes(u, 1) EXCEPT !.err = NoErr]))

(* bytes.ToLower on an ASCII byte. *)
ToLower(b) == IF b >= 65 /\ b <= 90 THEN b + 32 ELSE b

(* The closing tag is only required to begin with the element's name. *)
closingTagLacksPrefix(s, start, cn) ==
  ~HasPrefixAt(Content(s.data, Slice(start, s.position)), 0,
               Content(s.data, s.nodes[cn].Name))

(* bytes.Compare(closeTag, cn.Name) != 0, closeTag being data[start:position]. *)
closingTagDiffers(s, start, cn) ==
  Content(s.data, Slice(start, s.position)) # Content(s.data, s.nodes[cn].Name)

(* parseNodeContents, lines 251-267: the closing tag of element cn, entered *)
(* at the first byte of its name.                                           *)
closeNode(s, cn) ==
  Then(skip(s, lookupNodeName), LAMBDA s1 :
    IF s.ValidateClosingTag /\ SlicePanics(s1, s.position, s1.position) THEN Panic(s1)
    ELSE IF s.ValidateClosingTag /\ closingTagDiffers(s1, s.position, cn)
    THEN Fail(s1, "unexpected closing tag")
    ELSE
  Then(skip(s1, lookupWhitespace), LAMBDA s2 :
    IF ~InBuf(s2) THEN Panic(s2)
    ELSE IF getCurrentByte(s2) # Code[">"] THEN Fail(s2, "expected '>'")
    ELSE [s2 EXCEPT !.position = @ + 1, !.err = NoErr]))

(* An iteration of a parsing loop that ends, without returning, at or      *)
(* before the position it started from meets the same bytes again: the     *)
(* loop never ends.                                                        *)
NoProgress(s) == [s EXCEPT !.fault = "noprogress"]

(* The child is parsed and never linked to its parent. *)
appendChildDropped(s, cn) == s

(* parseNodeContents, lines 275-277 *)
appendChild(s, cn) == IF s.node # 0 THEN AppendNode(s, cn, s.node) ELSE s

(* The parser's course from a program point depends on the buffer and the  *)
(* position only: a loop that comes back to a program point with both      *)
(* unchanged never ends.                                                   *)
SameCursor(s, t) == t.position = s.position /\ t.data = s.data

RECURSIVE parseNode(_), parseElement(_), parseNodeContents(_, _, _)

(* parseNodeContents: the loop over children and text of element cn, from  *)
(* its head, or from the label AfterDataNode when afterData holds.         *)
parseNodeContents(s, cn, afterData) ==
  Then(IF afterData THEN s ELSE skip(s, lookupWhitespace), LAMBDA s0 :
    IF ~InBuf(s0) THEN Panic(s0)
    ELSE IF getCurrentByte(s0) = Code["<"]
    THEN IF getNextByte(s0).c = Code["/"]
         THEN closeNode([getNextByte(s0) EXCEPT !.position = @ + 1], cn)
         ELSE Then(parseNode(getNextByte(s0)), LAMBDA s2 :
                IF s2.err # NoErr THEN s2
                ELSE Then(appendChild(s2, cn), LAMBDA s3 :
                       IF ~afterData /\ SameCursor(s, s3) THEN NoProgress(s3)
                       ELSE parseNodeContents(s3, cn, FALSE)))
    ELSE Then(parseAndAppendData(s0, cn), LAMBDA s1 :
           IF s1.err # NoErr THEN s1
           ELSE IF SameCursor(s0, s1) THEN NoProgress(s1)
           ELSE parseNodeContents(s1, cn, TRUE)))

(* parseElement, lines 220-234: the ending type after the attributes. *)
elementEnd(s, currentElement) ==
  IF ~InBuf(s) THEN Panic(s)
  ELSE IF getCurrentByte(s) = Code[">"]
  THEN Then(parseNodeContents([s EXCEPT !.position = @ + 1], currentElement, FALSE),
            LAMBDA t : IF t.err # NoErr THEN Fail(t, t.err)
                       ELSE [t EXCEPT !.node = currentElement, !.err = NoErr])
  ELSE IF getCurrentByte(s) = Code["/"]
  THEN LET t == getNextByte(s)
       IN  IF t.c # Code[">"] THEN Fail(t, "expected '>' after '/'")
           ELSE [t EXCEPT !.position = @ + 1, !.node = currentElement, !.err = NoErr]
  ELSE Fail(s, "unknown end type error")

(* parseElement parses an element node. *)
parseElement(s) ==
  Then(skip(newNode(s, "Element"), lookupNodeName), LAMBDA s2 :
    IF s.position = s2.position THEN Fail(s2, "error parsing node name")
    ELSE IF SlicePanics(s2, s.position, s2.position) THEN Panic(s2)
    ELSE
  Then(skip([s2 EXCEPT !.nodes[s2.node].Name = Slice(s.position, s2.position)],
            lookupWhitespace), LAMBDA s3 :
  Then(parseAttributes(s3, s2.node), LAMBDA s4 :
    IF s4.err # NoErr THEN Fail(s4, s4.err) ELSE elementEnd(s4, s2.node))))

(* parseNode, case '?': the XML declaration or a processing instruction. *)
parseQuestion(s) ==
  LET s1 == skipBytes(s, 4)
      x  == [i \in 1..3 |-> ToLower(s1.data[s1.position - 3 + i])]
  IN  IF s1.err # NoErr THEN Fail(s1, "unexpected end of file")
      ELSE IF x = Bytes(<<"x", "m", "l">>) /\ lookupWhitespace[getCurrentByte(s1)] = 1
      THEN parseXMLDeclaration(getNextByte(s1))
      ELSE parsePI([s1 EXCEPT !.position = @ - 3])

(* parseNode, case '!': comment, CDATA section, DOCTYPE or unrecognized. *)
parseBang(s) ==
  LET s1 == getNextByte(s)
  IN  CASE s1.c = Code["-"] ->
             LET s2 == getNextByte(s1)
             IN  IF s2.c = Code["-"] THEN parseComment(getNextByte(s2))
                 ELSE [skipToChar(s2, Code[">"]) EXCEPT !.node = 0]
        [] s1.c = Code["["] ->
             LET s2 == skipBytes(s1, 1)
             IN  IF s2.err # NoErr THEN Fail(s2, s2.err)
                 ELSE IF ~HasPrefix(s2, Bytes(<<"C", "D", "A", "T", "A", "[">>))
                 THEN Fail(s2, "unexpecte data following <![")
                 ELSE parseCDATA(skipBytes(s2, 6))
        [] s1.c = Code["D"] ->
             LET s2 == skipBytes(s1, 1)
             IN  IF s2.err # NoErr THEN Fail(s2, s2.err)
                 ELSE IF ~HasPrefix(s2, Bytes(<<"O", "C", "T", "Y", "P", "E">>))
                 THEN Fail(s2, "unexpected end of file at")
                 ELSE IF s2.position + 6 >= Len(s2.data) THEN Panic(s2)
                 ELSE IF lookupWhitespace[s2.data[s2.position + 6 + 1]] = 1
                 THEN parseDocType(skipBytes(s2, 6))
                 ELSE Fail(s2, "unexpected end of file at")
        [] s1.c = 0 -> Fail(s1, "unexpected end of file at")
        [] OTHER ->
             LET s2 == skipPastChar(s1, Code[">"])
             IN  IF s2.err # NoErr THEN Fail(s2, s2.err)
                 ELSE Fail(s2, "unrecognized node")

(* parseNode is the highest level parsing method; expects the position to  *)
(* be after a '<'.                                                         *)
parseNode(s) ==
  IF ~InBuf(s) THEN Panic(s)
  ELSE IF getCurrentByte(s) = Code["?"] THEN parseQuestion(s)
  ELSE IF getCurrentByte(s) = Code["!"] THEN parseBang(s)
  ELSE parseElement(s)

contextSize == 40

Max(x, y) == IF x >= y THEN x ELSE y

Min(x, y) == IF x <= y THEN x ELSE y

(* contextError annotates the error with the bytes around the position; the *)
(* annotation is text only, its slices can panic.                           *)
contextError(s) ==
  IF \/ SlicePanics(s, Max(s.position - contextSize, 0), Min(s.position, Len(s.data)))
     \/ SlicePanics(s, Min(s.position + 1, Len(s.data)),
                       Min(s.position + contextSize, Len(s.data)))
  THEN Panic(s)
  ELSE s

(* skipBOM: a UTF-8 byte-order mark is skipped; a UTF-16 one hands the     *)
(* buffer to decodeUTF16, which is outside this model.                     *)
skipBOM(s) ==
  IF HasPrefixAt(s.data, 0, Bytes(<<"xEF", "xBB", "xBF">>))
  THEN [s EXCEPT !.position = @ + 3]
  ELSE IF \/ HasPrefixAt(s.data, 0, Bytes(<<"xFF", "xFE">>))
          \/ HasPrefixAt(s.data, 0, Bytes(<<"xFE", "xFF">>))
  THEN [s EXCEPT !.fault = "utf16"]
  ELSE s

(* Parse that empties the node stores before it starts, so that slots of   *)
(* an earlier tree are handed out again.                                   *)
parseBeginRecycling(s, b) ==
  skipBOM(newNode([s EXCEPT !.position = 0, !.data = b, !.nodes = << >>,
                            !.attrs = << >>], "Document"))

(* Parse, lines 38-42: up to the top-level loop. *)
parseBegin(s, b) ==
  skipBOM(newNode([s EXCEPT !.position = 0, !.data = b], "Document"))

(* Parse, lines 44-59: one iteration of the top-level loop on document doc. *)
(* s.xret tells how it ended: "break", "return" or "loop".                  *)
parseIter(s, doc) ==
  Then(skip(s, lookupWhitespace), LAMBDA s1 :
    IF s1.position = Len(s1.data) - 1 THEN [s1 EXCEPT !.xret = "break"]
    ELSE IF ~InBuf(s1) THEN Panic(s1)
    ELSE IF getCurrentByte(s1) = Code["<"]
    THEN Then(parseNode([s1 EXCEPT !.position = @ + 1]), LAMBDA s2 :
           IF s2.err # NoErr THEN [contextError(s2) EXCEPT !.xret = "return"]
           ELSE Then(AppendNode(s2, doc, s2.node), LAMBDA s3 :
                  IF SameCursor(s, s3) THEN NoProgress(s3)
                  ELSE [s3 EXCEPT !.xret = "loop"]))
    ELSE [contextError(Fail(s1, "expected '<'")) EXCEPT !.node = doc, !.xret = "return"])

(* Parse run to its end on buffer b: the whole call as one function. *)
RECURSIVE parseLoop(_, _)
parseLoop(s, doc) ==
  IF s.position < Len(s.data)
  THEN Then(parseIter(s, doc), LAMBDA t :
         IF t.xret = "return" THEN t
         ELSE IF t.xret = "break" THEN [t EXCEPT !.node = doc, !.err = NoErr]
         ELSE parseLoop(t, doc))
  ELSE [s EXCEPT !.node = doc, !.err = NoErr]

Parse(s, b) == Then(parseBegin(s, b), LAMBDA t : parseLoop(t, t.node))

(***************************************************************************)
(* Input buffers                                                           *)
(***************************************************************************)
MaxShortLen == 3

MaxElements == 2

(* Every byte string over alphabet of length at most n. *)
RECURSIVE StringsUpTo(_, _)
StringsUpTo(alphabet, n) ==
  IF n = 0 THEN {<< >>}
  ELSE LET shorter == StringsUpTo(alphabet, n - 1)
       IN  shorter \cup {Append(w, b) : w \in {v \in shorter : Len(v) = n - 1},
                                         b \in alphabet}

ShortAlphabet ==
  {Code[ch] : ch \in {"<", ">", "/", "a", " ", "&", "NUL", "!"}}

ShortBuffers == StringsUpTo(ShortAlphabet, MaxShortLen)

(* Documents of nested elements.  An element is [name, close, kids]: close *)
(* is the name written in its closing tag, or SelfClosing for <name/>.     *)
SelfClosing == << >>

OpenNames == {Bytes(<<"a">>), Bytes(<<"a", "b">>)}

CloseNames == OpenNames \cup {Bytes(<<"b">>)}

RECURSIVE ForestsOfSize(_)
TreesOfSize(n) ==
  {[name |-> nm, close |-> cl, kids |-> ks] :
     nm \in OpenNames, cl \in CloseNames, ks \in ForestsOfSize(n - 1)}
  \cup (IF n = 1
        THEN {[name |-> nm, close |-> SelfClosing, kids |-> << >>] : nm \in OpenNames}
        ELSE {})

ForestsOfSize(n) ==
  IF n = 0 THEN {<< >>}
  ELSE UNION {{<<tr>> \o f : tr \in TreesOfSize(k), f \in ForestsOfSize(n - k)} :
                k \in 1..n}

Forests == UNION {ForestsOfSize(n) : n \in 0..MaxElements}

RECURSIVE Render(_, _), RenderTree(_, _)
RenderTree(tr, pad) ==
  (IF tr.close = SelfClosing
   THEN Bytes(<<"<">>) \o tr.name \o Bytes(<<"/", ">">>)
   ELSE Bytes(<<"<">>) \o tr.name \o Bytes(<<">">>) \o Render(tr.kids, pad)
        \o Bytes(<<"<", "/">>) \o tr.close \o Bytes(<<">">>))
  \o pad

(* The text of a forest, each element followed by pad. *)
Render(f, pad) ==
  IF f = << >> THEN << >> ELSE RenderTree(Head(f), pad) \o Render(Tail(f), pad)

RECURSIVE ClosingsMatch(_)
ClosingsMatch(f) ==
  \A i \in 1..Len(f) :
    /\ f[i].close \in {SelfClosing, f[i].name}
    /\ ClosingsMatch(f[i].kids)

(* The nesting of a forest: the elements with their names and children. *)
RECURSIVE Nesting(_)
Nesting(f) ==
  [i \in 1..Len(f) |->
     [type |-> "Element", name |-> f[i].name, kids |-> Nesting(f[i].kids)]]

Pads == {<< >>, Bytes(<<" ">>)}

ElementInputs ==
  {[buf |-> Render(f, pad), forest |-> f, kind |-> "elements"] :
     f \in Forests, pad \in Pads}

(* Sample documents with every kind of construct, cut at every length and  *)
(* with one stray byte put in at every place.                              *)
Samples ==
  { Bytes(<<"<", "?", "x", "m", "l", " ", "v", "=", "\"", "1", "\"", "?", ">",
            "<", "a", "/", ">">>),
    Bytes(<<"<", "!", "D", "O", "C", "T", "Y", "P", "E", " ", "a", " ", "[",
            "<", "!", "E", " ", "x", ">", "]", ">", "<", "a", "/", ">">>),
    Bytes(<<"<", "a", " ", "b", "=", "'", "1", "'", " ", "c", "=", "\"", "&",
            "l", "t", ";", "\"", ">", "x", "&", "a", "m", "p", ";", "y", "<",
            "/", "a", ">">>),
    Bytes(<<"<", "a", ">", "<", "!", "-", "-", "c", "-", "-", ">", "<", "b",
            "/", ">", "<", "/", "a", ">">>),
    Bytes(<<"<", "a", ">", "<", "!", "[", "C", "D", "A", "T", "A", "[", "z",
            "]", "]", ">", "<", "/", "a", ">">>),
    Bytes(<<"<", "?", "p", " ", "x", "?", ">", "<", "a", ">", "x", "<", "/",
            "a", ">", "LF">>),
    Bytes(<<"xEF", "xBB", "xBF", "<", "a", "/", ">">>),
    Bytes(<<"xFF", "xFE", "<", "NUL">>) }

StrayBytes == {Code[ch] : ch \in {"x", "<", " ", "NUL", ">"}}

SampleBuffers ==
  UNION {{SubSeq(d, 1, n) : n \in 0..Len(d)}
         \cup {SubSeq(d, 1, n) \o <<b>> \o SubSeq(d, n + 1, Len(d)) :
                 n \in 0..Len(d), b \in StrayBytes} : d \in Samples}

RawInputs ==
  {[buf |-> b, forest |-> << >>, kind |-> "raw"] : b \in ShortBuffers \cup SampleBuffers}

(* Elements whose content is several text runs with a child construct      *)
(* between each two: <a> run sep run ... </a>.                             *)
MaxRuns == 3

RunTexts == {Bytes(<<"x">>), Bytes(<<"y">>), Bytes(<<"x", "y">>)}

RunSeparators ==
  {Bytes(<<"<", "b", "/", ">">>), Bytes(<<"<", "!", "-", "-", "c", "-", "-", ">">>)}

RECURSIVE RunSequences(_)
RunSequences(n) ==
  IF n = 0 THEN {<< >>}
  ELSE {<<t>> \o w : t \in RunTexts, w \in RunSequences(n - 1)}

RECURSIVE JoinRuns(_, _)
JoinRuns(runs, sep) ==
  IF Len(runs) = 1 THEN runs[1]
  ELSE runs[1] \o sep \o JoinRuns(Tail(runs), sep)

InElementA(content) ==
  Bytes(<<"<", "a", ">">>) \o content \o Bytes(<<"<", "/", "a", ">">>)

TextRunInputs ==
  {[buf |-> InElementA(JoinRuns(runs, sep)), forest |-> << >>, kind |-> "runs",
    runs |-> runs] :
     runs \in UNION {RunSequences(n) : n \in 1..MaxRuns}, sep \in RunSeparators}

(* An element with one text run: whitespace, a body that neither starts    *)
(* nor ends with whitespace, whitespace.  dec is the body with its         *)
(* references replaced.                                                    *)
Whitespaces == {<< >>, Bytes(<<" ">>), Bytes(<<"LF", " ">>)}

TextBodies ==
  {[raw |-> Bytes(<<"x">>), dec |-> Bytes(<<"x">>)],
   [raw |-> Bytes(<<"x", " ", "y">>), dec |-> Bytes(<<"x", " ", "y">>)],
   [raw |-> Bytes(<<"x", "y", "z", " ", "&", "a", "m", "p", ";">>),
    dec |-> Bytes(<<"x", "y", "z", " ", "&">>)]}

PaddedTextInputs ==
  {[buf |-> InElementA(lead \o body.raw \o trail), forest |-> << >>, kind |-> "text",
    lead |-> lead, body |-> body, trail |-> trail] :
     lead \in Whitespaces, body \in TextBodies, trail \in Whitespaces}

(* A self-closing element with attributes.  An attribute is written name,  *)
(* '=', quote q, raw, q; dec is raw with its references replaced.  The     *)
(* last attribute may lack its '=', its opening or its closing quote, or   *)
(* the buffer may be cut after its value.                                  *)
MaxAttrs == 2

Quotes == {Code["'"], Code["\""]}

OtherQuote(q) == IF q = Code["'"] THEN Code["\""] ELSE Code["'"]

AttrValues(q) ==
  {[raw |-> << >>, dec |-> << >>],
   [raw |-> Bytes(<<"x">>) \o <<OtherQuote(q)>>, dec |-> Bytes(<<"x">>) \o <<OtherQuote(q)>>],
   [raw |-> Bytes(<<"&", "a", "m", "p", ";">>), dec |-> Bytes(<<"&">>)],
   [raw |-> Bytes(<<"&", "q", "u", "o", "t", ";">>), dec |-> Bytes(<<"\"">>)]}

AttrNames == <<Bytes(<<"b">>), Bytes(<<"c">>), Bytes(<<"d">>)>>

Attrs ==
  UNION {[q : {q}, val : AttrValues(q)] : q \in Quotes}

RECURSIVE AttrLists(_)
AttrLists(n) ==
  IF n = 0 THEN {<< >>}
  ELSE {Append(l, a) : l \in AttrLists(n - 1), a \in Attrs}

Defects == {"none", "eq", "open", "close", "cut"}

RenderAttr(name, a, defect) ==
  Bytes(<<" ">>) \o name
  \o (IF defect = "eq" THEN << >> ELSE Bytes(<<"=">>))
  \o (IF defect = "open" THEN << >> ELSE <<a.q>>)
  \o a.val.raw
  \o (IF defect \in {"close", "cut"} THEN << >> ELSE <<a.q>>)

RECURSIVE RenderAttrs(_, _)
RenderAttrs(l, defect) ==
  IF l = << >> THEN << >>
  ELSE RenderAttrs(SubSeq(l, 1, Len(l) - 1), "none")
       \o RenderAttr(AttrNames[Len(l)], l[Len(l)], defect)

(* The attributes in front of a defective one are written without          *)
(* references.                                                             *)
PlainBeforeLast(l) == \A i \in 1..(Len(l) - 1) : l[i].val.raw = l[i].val.dec

AttrInputs ==
  {[buf |-> Bytes(<<"<", "a">>) \o RenderAttrs(ld[1], ld[2])
            \o (IF ld[2] = "cut" THEN << >> ELSE Bytes(<<"/", ">">>)),
    forest |-> << >>, kind |-> "attrs", attrs |-> ld[1], defect |-> ld[2]] :
     ld \in {ld \in (UNION {AttrLists(n) : n \in 1..MaxAttrs}) \X Defects :
               ld[2] = "none" \/ PlainBeforeLast(ld[1])}}

(* A comment <!-- body --> at the top level in front of an element, or     *)
(* inside an element.                                                      *)
MaxBodyLen == 3

CommentAlphabet == {Code[ch] : ch \in {"a", "-", ">"}}

CommentBodies == StringsUpTo(CommentAlphabet, MaxBodyLen)

Places == {"top", "inside"}

Placed(place, construct) ==
  IF place = "top" THEN construct \o Bytes(<<"<", "a", "/", ">">>)
  ELSE InElementA(construct)

CommentInputs ==
  {[buf |-> Placed(pl, Bytes(<<"<", "!", "-", "-">>) \o b \o Bytes(<<"-", "-", ">">>)),
    forest |-> << >>, kind |-> "comment", body |-> b, place |-> pl] :
     b \in CommentBodies, pl \in Places}

(* "<!" followed by something that opens neither a comment, nor a CDATA    *)
(* section, nor a DOCTYPE, up to the next '>'.                             *)
BangTails ==
  {Bytes(<<"-", "x">>), Bytes(<<"-">>), Bytes(<<"-", " ", "-">>),
   Bytes(<<"E", "L", "E", "M", "E", "N", "T", " ", "a">>),
   Bytes(<<"D", "x">>), Bytes(<<"D", "O", "C", "T", "Y", "P", "E", "x">>),
   Bytes(<<"[", "x">>), Bytes(<<"x">>)}

BangInputs ==
  {[buf |-> Placed(pl, Bytes(<<"<", "!">>) \o t \o Bytes(<<">">>)),
    forest |-> << >>, kind |-> "bang", tail |-> t, place |-> pl] :
     t \in BangTails, pl \in Places}

(* An element whose content is a single CDATA section:                      *)
(* <a><![CDATA[ text ]]></a>.                                              *)
CdataTexts == {<< >>, Bytes(<<"z">>), Bytes(<<"z", "z">>)}

CdataInputs ==
  {[buf |-> InElementA(Bytes(<<"<", "!", "[", "C", "D", "A", "T", "A", "[">>) \o t
                       \o Bytes(<<"]", "]", ">">>)),
    forest |-> << >>, kind |-> "cdata", text |-> t] : t \in CdataTexts}

(* An XML declaration with one attribute, whole or with a defect, before   *)
(* the element: <?xml attr ?><a/>.                                         *)
DeclAttrs ==
  {[text |-> Bytes(<<"v", "=", "\"", "1", "\"">>), defect |-> "none"],
   [text |-> Bytes(<<"v", "e", "r", "s", "i", "o", "n">>), defect |-> "eq"],
   [text |-> Bytes(<<"v", "=">>), defect |-> "open"],
   [text |-> Bytes(<<"v", "=", "1">>), defect |-> "open"],
   [text |-> Bytes(<<"v", "=", "\"", "1">>), defect |-> "close"]}

DeclInputs ==
  {[buf |-> Bytes(<<"<", "?", "x", "m", "l", " ">>) \o a.text
            \o Bytes(<<"?", ">", "<", "a", "/", ">">>),
    forest |-> << >>, kind |-> "decl", attr |-> a.text, defect |-> a.defect] :
     a \in DeclAttrs}

Inputs ==
  ElementInputs \cup RawInputs \cup TextRunInputs \cup PaddedTextInputs \cup AttrInputs
  \cup CommentInputs \cup BangInputs \cup CdataInputs \cup DeclInputs

(***************************************************************************)
(* The state machine of one parser instance                                *)
(***************************************************************************)
VARIABLES
  r,       \* the RunXML instance with the node stores; in the arena machines
           \* the package variables and the arenas
  pc,      \* where the caller or the call in progress stands
  doc,     \* Parse's local doc; the node g a caller edits; the locals of
           \* concurrent goroutines
  input,   \* the buffer handed to the call, as written, or the last call
           \* of an operation with its arguments
  result   \* what the call returned: Parse's node and error, the channel of
           \* a traversal with the goroutine behind it, or the slots the
           \* arenas have handed out

vars == <<r, pc, doc, input, result>>

NoResult == [node |-> 0, err |-> NoErr]

NoInput == [buf |-> << >>, forest |-> << >>, kind |-> "none"]

Init ==
  /\ r = NewDefaultRunXML
  /\ pc = "idle"
  /\ doc = 0
  /\ input = NoInput
  /\ result = NoResult

(* The caller sets the exported field before parsing. *)
SetValidateClosingTag(v) ==
  /\ pc = "idle"
  /\ r.ValidateClosingTag # v
  /\ r' = [r EXCEPT !.ValidateClosingTag = v]
  /\ UNCHANGED <<pc, doc, input, result>>

(* The position a faulted call stops at. *)
Abort(s) ==
  /\ r' = s
  /\ pc' = IF s.fault = "panic" THEN "panicked"
           ELSE IF s.fault = "noprogress" THEN "hung" ELSE "unmodelled"
  /\ UNCHANGED <<doc, result>>

(* r.Parse(b), up to the top-level loop. *)
ParseBegin(in) ==
  /\ pc = "idle"
  /\ input' = in
  /\ LET s == parseBegin(r, in.buf)
     IN  IF Faulted(s) THEN Abort(s)
         ELSE /\ r' = s
              /\ doc' = s.node
              /\ pc' = "loop"
              /\ UNCHANGED result

(* Where an iteration of the top-level loop leaves the call. *)
ParseIterEnd(s) ==
  IF Faulted(s) THEN Abort(s)
  ELSE /\ r' = s
       /\ UNCHANGED doc
       /\ pc' = IF s.xret = "return" THEN "returned"
                ELSE IF s.xret = "break" THEN "break" ELSE "loop"
       /\ result' = IF s.xret = "return" THEN [node |-> s.node, err |-> s.err]
                    ELSE result

(* One iteration of Parse's top-level loop. *)
ParseIter ==
  /\ pc = "loop"
  /\ r.position < Len(r.data)
  /\ UNCHANGED input
  /\ ParseIterEnd(parseIter(r, doc))

(* The end of the top-level loop: return doc, nil. *)
ParseReturn ==
  /\ \/ pc = "break"
     \/ pc = "loop" /\ r.position >= Len(r.data)
  /\ pc' = "returned"
  /\ result' = [node |-> doc, err |-> NoErr]
  /\ UNCHANGED <<r, doc, input>>

Next ==
  \/ \E v \in BOOLEAN : SetValidateClosingTag(v)
  \/ \E in \in Inputs : ParseBegin(in)
  \/ ParseIter
  \/ ParseReturn

Spec == Init /\ [][Next]_vars

(***************************************************************************)
(* The state machine of one call of skipAndExpandCharacterRefs             *)
(***************************************************************************)
MaxTokens == 2

(* A run is written as a sequence of tokens: plain bytes, the five         *)
(* references with what they stand for, and '&' sequences that are no      *)
(* reference.                                                              *)
Token(class, raw, dec) == [class |-> class, raw |-> Bytes(raw), dec |-> Bytes(dec)]

Tokens ==
  { Token("plain", <<"x">>, <<"x">>),
    Token("plain", <<"y">>, <<"y">>),
    Token("ref", <<"&", "a", "m", "p", ";">>, <<"&">>),
    Token("ref", <<"&", "l", "t", ";">>, <<"<">>),
    Token("ref", <<"&", "g", "t", ";">>, <<">">>),
    Token("ref", <<"&", "q", "u", "o", "t", ";">>, <<"\"">>),
    Token("apos", <<"&", "a", "p", "o", "s", ";">>, <<"'">>),
    Token("other", <<"&", "x">>, <<"&", "x">>),
    Token("other", <<"&", "#", "1", ";">>, <<"&", "#", "1", ";">>),
    Token("other", <<"&", "a", "b">>, <<"&", "a", "b">>) }

TokenRuns == StringsUpTo(Tokens, MaxTokens)

RECURSIVE Raw(_)
Raw(tokens) == IF tokens = << >> THEN << >> ELSE Head(tokens).raw \o Raw(Tail(tokens))

(* What the run stands for, the apostrophe reference written as apos. *)
RECURSIVE Decode(_, _)
Decode(tokens, apos) ==
  IF tokens = << >> THEN << >>
  ELSE (IF Head(tokens).class = "apos" THEN <<apos>> ELSE Head(tokens).dec)
       \o Decode(Tail(tokens), apos)

Contexts == {"text", "sq", "dq"}

(* The tables each caller passes: parseAndAppendData (line 560) and        *)
(* parseAttributes (lines 174, 176).                                       *)
StopPred(ctx) ==
  CASE ctx = "text" -> lookupText
    [] ctx = "sq" -> lookupAttributeDataSQ
    [] ctx = "dq" -> lookupAttributeDataDQ

StopPredPure(ctx) ==
  CASE ctx = "text" -> lookupTextPureNoWS
    [] ctx = "sq" -> lookupAttributeDataSQPure
    [] ctx = "dq" -> lookupAttributeDataDQPure

(* The bytes before the run, up to where the caller stands, and after it. *)
Before(ctx) ==
  CASE ctx = "text" -> Bytes(<<"<", "a", ">">>)
    [] ctx = "sq" -> Bytes(<<"<", "a", " ", "b", "=", "'">>)
    [] ctx = "dq" -> Bytes(<<"<", "a", " ", "b", "=", "\"">>)

After(ctx) ==
  CASE ctx = "text" -> Bytes(<<"<", "/", "a", ">">>)
    [] ctx = "sq" -> Bytes(<<"'", "/", ">">>)
    [] ctx = "dq" -> Bytes(<<"\"", "/", ">">>)

(* A run in its buffer; an unterminated run is the end of the buffer. *)
RunInput(tokens, ctx, terminated) ==
  [buf |-> Before(ctx) \o Raw(tokens) \o (IF terminated THEN After(ctx) ELSE << >>),
   start |-> Len(Before(ctx)), tokens |-> tokens, ctx |-> ctx,
   terminated |-> terminated, kind |-> "run"]

(* parseNodeContents reads the current byte before it calls                *)
(* parseAndAppendData, so a text run starts inside the buffer; an          *)
(* attribute value may start at its end (parseAttributes, line 169).       *)
RunInputs ==
  {in \in {RunInput(tokens, ctx, terminated) :
             tokens \in TokenRuns, ctx \in Contexts, terminated \in BOOLEAN} :
     in.ctx = "text" => in.start < Len(in.buf)}

InitExpand ==
  /\ r = NewDefaultRunXML
  /\ pc = "xidle"
  /\ doc = 0
  /\ input = NoInput
  /\ result = NoResult

(* Where a step of the call leaves it. *)
ExpandEnd(s) ==
  IF Faulted(s) THEN Abort(s)
  ELSE /\ r' = s
       /\ pc' = IF s.xret = "loop" THEN "xloop" ELSE "xreturned"
       /\ UNCHANGED <<doc, result>>

(* The call, from the position its caller stands at, up to the loop. *)
ExpandBegin(in) ==
  /\ pc = "xidle"
  /\ input' = in
  /\ ExpandEnd(expandBegin([r EXCEPT !.data = in.buf, !.position = in.start],
                           StopPredPure(in.ctx)))

(* One iteration of the loop; a 0 byte read at its end returns nil. *)
ExpandIter ==
  /\ pc = "xloop"
  /\ StopPred(input.ctx)[r.c] = 1
  /\ UNCHANGED input
  /\ ExpandEnd(IF expandBody(r).xret = "nil"
               THEN [expandBody(r) EXCEPT !.value = NilSlice]
               ELSE expandBody(r))

(* The loop ends at a byte of the stop table: return data[start:trail]. *)
ExpandReturn ==
  /\ pc = "xloop"
  /\ StopPred(input.ctx)[r.c] # 1
  /\ UNCHANGED input
  /\ ExpandEnd(expandReturn(r))

NextExpand ==
  \/ \E in \in RunInputs : ExpandBegin(in)
  \/ ExpandIter
  \/ ExpandReturn

SpecExpand == InitExpand /\ [][NextExpand]_vars

(***************************************************************************)
(* The state machine of a traversal of a parsed tree                       *)
(*                                                                         *)
(* A document is parsed, then SendChildElements, SendCloseChildren or      *)
(* CountChildren is called on a node g of the tree.  result holds what the *)
(* call returned, the channel ret, with the goroutine that feeds it and    *)
(* what the consumer has taken from it.  A step of the goroutine is one    *)
(* channel operation; the consumer is a `for range ret` loop that may be   *)
(* abandoned at any iteration.                                             *)
(***************************************************************************)
(* make(chan *GenericNode, 100) in SendChildElements. *)
SendChildElementsCap == 100

(* make(chan *GenericNode, 8) in SendCloseChildren. *)
SendCloseChildrenCap == 8

(* The number of top-level elements of the wide document: more nodes than  *)
(* either channel holds.                                                   *)
WideWidth == 101

RECURSIVE Repeat(_, _)
Repeat(w, n) == IF n = 0 THEN << >> ELSE w \o Repeat(w, n - 1)

WideDocument == Repeat(Bytes(<<"<", "b", "/", ">">>), WideWidth)

(* The documents of TestHandelingOfSpaces and of TestSimpleXML2. *)
SpacesDocument ==
  Bytes(<<"<", "r", "o", "o", "t", ">", "<", "n", "a", "m", "e", ">", " ", "x", "y",
          "z", " ", "&", "a", "m", "p", ";", " ", "<", "/", "n", "a", "m", "e", ">",
          " ", " ", " ", " ", "<", "/", "r", "o", "o", "t", ">">>)

DogRegister ==
  Bytes(<<"<", "d", "o", "g", "r", "e", "g", "i", "s", "t", "e", "r", " ", "v", "e",
          "r", "s", "i", "o", "n", "=", "\"", "1", "\"", ">", " ",
          "<", "d", "o", "g", ">", "<", "n", "a", "m", "e", " ", "a", "l", "i", "v",
          "e", "=", "'", "f", "a", "l", "s", "e", "'", ">", "F", "i", "d", "o",
          "<", "/", "n", "a", "m", "e", ">", "<", "/", "d", "o", "g", ">", " ", "LF",
          "TAB", "TAB",
          "<", "d", "o", "g", ">", "<", "n", "a", "m", "e", " ", "a", "l", "i", "v",
          "e", "=", "\"", "t", "r", "u", "e", "\"", ">", "S", "p", "i", "k", "e",
          "<", "/", "n", "a", "m", "e", ">", "<", "/", "d", "o", "g", ">", " ", " ",
          " ", "<", "/", "d", "o", "g", "r", "e", "g", "i", "s", "t", "e", "r", ">">>)

TestDocuments == {SpacesDocument, DogRegister}

(* The documents walked: nested elements, the test documents, an element   *)
(* with text runs, and the wide document, on which only the Document root  *)
(* is walked.                                                              *)
WalkInputs ==
  {[buf |-> Render(f, << >>), forest |-> f, kind |-> "walk", wide |-> FALSE] :
     f \in {f \in Forests : ClosingsMatch(f)}}
  \cup {[buf |-> b, forest |-> << >>, kind |-> "walk", wide |-> FALSE] :
          b \in TestDocuments \cup {InElementA(JoinRuns(<<Bytes(<<"x">>), Bytes(<<"y">>)>>,
                                                        Bytes(<<"<", "b", "/", ">">>)))}}
  \cup {[buf |-> WideDocument, forest |-> << >>, kind |-> "walk", wide |-> TRUE]}

(* The nodes a traversal is called on; 0 is the nil node. *)
WalkTargets ==
  IF input.kind = "walk" /\ input.wide THEN {doc} ELSE 0..Len(r.nodes)

(* ret = make(chan *GenericNode, cap) *)
NewChan(cap) == [cap |-> cap, buf |-> << >>, closed |-> FALSE]

(* A call on g: the channel returned, the calls or the node the goroutine  *)
(* has still to work on, and the consumer's loop.                          *)
NewWalk(op, g, cap, todo) ==
  [op |-> op, g |-> g, ret |-> NewChan(cap), todo |-> todo,
   received |-> << >>, count |-> 0, stopped |-> FALSE]

(* ret <- n can proceed. *)
canSendAlways(ret) == TRUE

(* ret <- n can proceed: the buffer of the channel is not full. *)
canSend(ret) == Len(ret.buf) < ret.cap

(* trav with the walk of the next sibling in front of the children's. *)
travSiblingFirst(ns, todo) ==
  LET g == Head(todo)
  IN  (IF ns[g].next # 0 THEN <<ns[g].next>> ELSE << >>)
      \o (IF ns[g].firstChild # 0 THEN <<ns[g].firstChild>> ELSE << >>)
      \o Tail(todo)

(* trav(g) after its `ret <- g`: the calls still to make, trav(firstChild) *)
(* and trav(next) in front of what the callers have left.                  *)
trav(ns, todo) ==
  LET g == Head(todo)
  IN  (IF ns[g].firstChild # 0 THEN <<ns[g].firstChild>> ELSE << >>)
      \o (IF ns[g].next # 0 THEN <<ns[g].next>> ELSE << >>)
      \o Tail(todo)

(* The goroutine of the earlier SendCloseChildren: no test for a node      *)
(* without children.                                                       *)
sendCloseFirstUnchecked(ns, g) == <<ns[g].firstChild>>

(* The goroutine of SendCloseChildren up to its loop: closes at once when  *)
(* g has no children, else starts at firstChild.                           *)
sendCloseFirst(ns, g) ==
  IF ns[g].firstChild = 0 THEN << >> ELSE <<ns[g].firstChild>>

(* The loop of SendCloseChildren after `ret <- n`: break at lastChild,     *)
(* else go on with n.next.                                                 *)
sendCloseNext(ns, g, n) ==
  IF n = ns[g].lastChild THEN << >> ELSE <<ns[n].next>>

(* Parse has returned the tree: doc, nil. *)
Parsed == pc = "returned" /\ result.err = NoErr

(* g.SendChildElements() *)
SendChildElements(g) ==
  /\ Parsed
  /\ g \in WalkTargets
  /\ IF g = 0
     THEN pc' = "panicked" /\ UNCHANGED result
     ELSE /\ pc' = "walking"
          /\ result' = NewWalk("SendChildElements", g, SendChildElementsCap, <<g>>)
  /\ UNCHANGED <<r, doc, input>>

(* g.SendCloseChildren() *)
SendCloseChildren(g) ==
  /\ Parsed
  /\ g \in WalkTargets
  /\ IF g = 0
     THEN pc' = "panicked" /\ UNCHANGED result
     ELSE /\ pc' = "walking"
          /\ result' = NewWalk("SendCloseChildren", g, SendCloseChildrenCap,
                               sendCloseFirst(r.nodes, g))
  /\ UNCHANGED <<r, doc, input>>

(* g.CountChildren(), up to its loop over g.SendChildElements(). *)
CountChildren(g) ==
  /\ Parsed
  /\ g \in WalkTargets
  /\ IF g = 0
     THEN pc' = "panicked" /\ UNCHANGED result
     ELSE /\ pc' = "walking"
          /\ result' = NewWalk("CountChildren", g, SendChildElementsCap, <<g>>)
  /\ UNCHANGED <<r, doc, input>>

(* The goroutine sends the next node; it waits while the channel is full. *)
ProducerSend ==
  /\ pc = "walking"
  /\ result.todo # << >>
  /\ canSend(result.ret)
  /\ LET n == Head(result.todo)
     IN  IF result.op = "SendCloseChildren"
         THEN IF n = 0 /\ r.nodes[result.g].lastChild # 0
              THEN /\ pc' = "panicked"
                   /\ result' = [result EXCEPT !.ret.buf = Append(@, n)]
              ELSE /\ pc' = pc
                   /\ result' = [result EXCEPT !.ret.buf = Append(@, n),
                                               !.todo = sendCloseNext(r.nodes, result.g, n)]
         ELSE /\ pc' = pc
              /\ result' = [result EXCEPT !.ret.buf = Append(@, n),
                                          !.todo = trav(r.nodes, result.todo)]
  /\ UNCHANGED <<r, doc, input>>

(* The goroutine has nothing left to send: close(ret). *)
ProducerClose ==
  /\ pc = "walking"
  /\ result.todo = << >>
  /\ ~result.ret.closed
  /\ result' = [result EXCEPT !.ret.closed = TRUE]
  /\ UNCHANGED <<r, pc, doc, input>>

(* One iteration of the consumer's loop: it takes the oldest node sent. *)
Receive ==
  /\ pc = "walking"
  /\ ~result.stopped
  /\ result.ret.buf # << >>
  /\ result' = [result EXCEPT !.ret.buf = Tail(@),
                              !.received = Append(@, Head(result.ret.buf)),
                              !.count = @ + 1]
  /\ UNCHANGED <<r, pc, doc, input>>

(* The consumer leaves its loop before the channel is closed and drained;  *)
(* the loop of CountChildren never does.                                   *)
ConsumerStop ==
  /\ pc = "walking"
  /\ result.op # "CountChildren"
  /\ ~result.stopped
  /\ ~(result.ret.closed /\ result.ret.buf = << >>)
  /\ result' = [result EXCEPT !.stopped = TRUE]
  /\ UNCHANGED <<r, pc, doc, input>>

(* The channel is closed and drained: the loop ends, and CountChildren     *)
(* returns count.                                                          *)
RangeEnd ==
  /\ pc = "walking"
  /\ ~result.stopped
  /\ result.ret.closed
  /\ result.ret.buf = << >>
  /\ pc' = "ranged"
  /\ UNCHANGED <<r, doc, input, result>>

(* Every node reference of the documents walked, nil included. *)
NodeRefs == 0..(WideWidth + 1)

NextWalk ==
  \/ \E in \in WalkInputs : ParseBegin(in)
  \/ ParseIter
  \/ ParseReturn
  \/ \E g \in NodeRefs : SendChildElements(g)
  \/ \E g \in NodeRefs : SendCloseChildren(g)
  \/ \E g \in NodeRefs : CountChildren(g)
  \/ ProducerSend
  \/ ProducerClose
  \/ Receive
  \/ ConsumerStop
  \/ RangeEnd

SpecWalk == Init /\ [][NextWalk]_vars

(* The Go scheduler runs a goroutine that can take its next step: the      *)
(* goroutine of a traversal is not left waiting while the channel has room *)
(* or is ready to be closed.  Nothing obliges the consumer to go on.       *)
SpecWalkFair ==
  SpecWalk /\ WF_vars(ProducerSend) /\ WF_vars(ProducerClose)

(***************************************************************************)
(* Properties of Parse                                                     *)
(***************************************************************************)
Succeeded == pc = "returned" /\ result.err = NoErr

(* C1: on a buffer that does not start with a UTF-16 byte-order mark, Parse *)
(* ends by returning the Document root with a nil error or by returning a   *)
(* non-nil error; it never ends in a run-time panic.                        *)
C1_ParseReturnsRootOrError ==
  /\ pc # "panicked"
  /\ pc = "returned" =>
       \/ result.err # NoErr
       \/ result.node = doc /\ r.nodes[doc].NodeType = "Document"

(* C2: Parse terminates on every buffer: no iteration of the top-level     *)
(* loop or of the element-content loop comes back to where it started      *)
(* without returning.                                                      *)
C2_ParseTerminates == pc # "hung"

(* The chain of siblings from node n onward, and from n backward. *)
RECURSIVE Forward(_, _, _)
Forward(ns, n, fuel) ==
  IF n = 0 \/ fuel = 0 THEN << >> ELSE <<n>> \o Forward(ns, ns[n].next, fuel - 1)

RECURSIVE Backward(_, _, _)
Backward(ns, n, fuel) ==
  IF n = 0 \/ fuel = 0 THEN << >> ELSE <<n>> \o Backward(ns, ns[n].prev, fuel - 1)

Reverse(seq) == [i \in 1..Len(seq) |-> seq[Len(seq) + 1 - i]]

Children(ns, p) == Forward(ns, ns[p].firstChild, Len(ns))

ChainConsistent(ns, p) ==
  /\ (ns[p].firstChild = 0) <=> (ns[p].lastChild = 0)
  /\ ns[p].firstChild # 0 => ns[ns[p].firstChild].prev = 0
  /\ ns[p].lastChild # 0 => ns[ns[p].lastChild].next = 0
  /\ \A i \in 1..Len(Children(ns, p)) :
       LET c == Children(ns, p)[i]
       IN  /\ ns[c].Parent = p
           /\ ns[c].next # 0 => ns[ns[c].next].prev = c
  /\ Backward(ns, ns[p].lastChild, Len(ns)) = Reverse(Children(ns, p))

(* C3: in the tree of a successful Parse every node's child chain is a     *)
(* consistent doubly-linked list: the first child has no prev, the last no *)
(* next, n.next.prev = n, firstChild is nil iff lastChild is, every child  *)
(* has its parent as Parent, and the backward walk from lastChild is the   *)
(* reverse of the forward walk from firstChild.                            *)
C3_ChildChainsConsistent ==
  Succeeded => \A p \in DOMAIN r.nodes : ChainConsistent(r.nodes, p)

C3_Witness ==
  /\ Succeeded
  /\ \E p \in DOMAIN r.nodes : Len(Children(r.nodes, p)) >= 2

(* The tree below node p: type, name and children of each child, in order. *)
RECURSIVE Shape(_, _, _)
Shape(s, p, fuel) ==
  IF fuel = 0 THEN << >>
  ELSE [i \in 1..Len(Children(s.nodes, p)) |->
          LET c == Children(s.nodes, p)[i]
          IN  [type |-> s.nodes[c].NodeType,
               name |-> Content(s.data, s.nodes[c].Name),
               kids |-> Shape(s, c, fuel - 1)]]

OneDocument(s, d) ==
  /\ {n \in DOMAIN s.nodes : s.nodes[n].NodeType = "Document"} = {d}
  /\ s.nodes[d].Parent = 0
  /\ s.nodes[d].prev = 0
  /\ s.nodes[d].next = 0

StrayByteAtBreak(s) ==
  /\ Len(s.data) > 0
  /\ s.position = Len(s.data) - 1
  /\ lookupWhitespace[s.data[s.position + 1]] # 1
  /\ s.data[s.position + 1] # Code["<"]

(* C5: when the next top-level byte after whitespace is not '<', wherever  *)
(* it stands in the buffer, the last byte included, Parse returns an error *)
(* and no successful result.                                               *)
C5_StrayTopLevelByteFails == Succeeded => ~StrayByteAtBreak(r)

(* C6: with ValidateClosingTag on, Parse fails when a closing tag's name   *)
(* differs from the name of the element it closes; with it off the same    *)
(* buffer is accepted, the closing tag consumed without comparing names.   *)
C6_ClosingTagValidation ==
  (pc = "returned" /\ input.kind = "elements") =>
    ((result.err = NoErr) <=> (~r.ValidateClosingTag \/ ClosingsMatch(input.forest)))

C6_Witness ==
  /\ Succeeded
  /\ input.kind = "elements"
  /\ ~r.ValidateClosingTag
  /\ input.buf = Bytes(<<"<", "a", ">", "<", "/", "b", ">">>)

(* The Data children of node p, in order, and what they hold. *)
DataChildren(s, p) ==
  SelectSeq(Children(s.nodes, p), LAMBDA c : s.nodes[c].NodeType = "Data")

DataValues(s, p) ==
  [i \in 1..Len(DataChildren(s, p)) |->
     Content(s.data, s.nodes[DataChildren(s, p)[i]].Value)]

(* The element Parse hung below the Document root. *)
RootElement(s, d) == s.nodes[d].firstChild

(* C11: for an element whose content is several text runs with child       *)
(* constructs between them, every run becomes a Data child in document     *)
(* order and the element's own value is the first run; later runs do not   *)
(* change it.                                                              *)
C11_ValueIsFirstRun ==
  (Succeeded /\ input.kind = "runs") =>
    /\ RootElement(r, doc) # 0
    /\ DataValues(r, RootElement(r, doc)) = input.runs
    /\ Content(r.data, r.nodes[RootElement(r, doc)].Value) = input.runs[1]

(* C12: the Data child of an element holds the element's text with its     *)
(* references decoded and with the leading and the trailing whitespace of  *)
(* the run kept: ` xyz &amp; ` gives ` xyz & `.                            *)
C12_WhitespaceKept ==
  (Succeeded /\ input.kind = "text") =>
    /\ RootElement(r, doc) # 0
    /\ DataValues(r, RootElement(r, doc)) =
         <<input.lead \o input.body.dec \o input.trail>>

(* The chain of attributes from attribute a onward. *)
RECURSIVE AttrForward(_, _, _)
AttrForward(as, a, fuel) ==
  IF a = 0 \/ fuel = 0 THEN << >> ELSE <<a>> \o AttrForward(as, as[a].next, fuel - 1)

(* The attributes of node g in chain order: name and value of each. *)
AttributeChain(s, g) ==
  LET chain == AttrForward(s.attrs, s.nodes[g].firstAttribute, Len(s.attrs))
  IN  [i \in 1..Len(chain) |->
         [name |-> Content(s.data, s.attrs[chain[i]].Name),
          value |-> Content(s.data, s.attrs[chain[i]].Value)]]

WrittenAttributes(l) ==
  [i \in 1..Len(l) |-> [name |-> AttrNames[i], value |-> l[i].val.dec]]

Ended == pc \in {"returned", "panicked", "hung", "unmodelled"}

(* C13: an attribute opened with quote q gets as value the decoded bytes   *)
(* up to the next q, so a single-quoted value may hold a double quote and  *)
(* a double-quoted one an apostrophe; Parse fails when '=', the opening    *)
(* quote or the closing quote is missing; the attributes of an element are *)
(* in its attribute chain in source order.                                 *)
C13_AttributesQuotedInOrder ==
  (Ended /\ input.kind = "attrs") =>
    IF input.defect = "none"
    THEN Succeeded =>
           /\ RootElement(r, doc) # 0
           /\ AttributeChain(r, RootElement(r, doc)) = WrittenAttributes(input.attrs)
    ELSE pc = "returned" /\ result.err # NoErr

(* Where the first "--" of text stands, 0 when there is none. *)
FirstDoubleHyphen(text) ==
  LET at == {i \in 1..(Len(text) - 1) : text[i] = Code["-"] /\ text[i + 1] = Code["-"]}
  IN  IF at = {} THEN 0 ELSE CHOOSE i \in at : \A j \in at : i <= j

(* The body has a "--" that is not followed by '>': the first "--" of the  *)
(* comment lies in the body and the byte after it is not '>'.              *)
DoubleHyphenInside(body) ==
  LET text == body \o Bytes(<<"-", "-", ">">>)
      i == FirstDoubleHyphen(text)
  IN  i + 1 <= Len(body) /\ text[i + 2] # Code[">"]

CommentNodes(s) == {n \in DOMAIN s.nodes : s.nodes[n].NodeType = "Comment"}

(* C14: Parse fails for every comment whose body has two consecutive       *)
(* hyphens not immediately followed by '>', and such a comment never       *)
(* produces a Comment node.                                                *)
C14_DoubleHyphenRejected ==
  (input.kind = "comment" /\ DoubleHyphenInside(input.body)) =>
    /\ CommentNodes(r) = {}
    /\ Ended => (pc = "returned" /\ result.err # NoErr)

C14_Witness ==
  /\ input.kind = "comment"
  /\ input.place = "inside"
  /\ input.body = Bytes(<<"-", "-", "a">>)
  /\ pc = "returned"
  /\ result.err # NoErr

(* C15: when "<!" is followed by anything other than "--", "[CDATA[" or    *)
(* "DOCTYPE" and whitespace, parseNode reports an error and Parse fails;   *)
(* it never returns a nil node with a nil error and no node is added to    *)
(* the tree for that construct.                                            *)
C15_UnrecognizedBangFails ==
  (Ended /\ input.kind = "bang") => (pc = "returned" /\ result.err # NoErr)

(***************************************************************************)
(* Properties of skipAndExpandCharacterRefs                                *)
(***************************************************************************)
Classes(tokens) == {tokens[i].class : i \in 1..Len(tokens)}

Decoded == Content(r.data, r.value)

(* C7: expansion replaces every &amp; &lt; &gt; &quot; by & < > " and      *)
(* &apos; by the apostrophe or by a backslash, wherever the reference      *)
(* stands in the run, and keeps the other bytes in order.                  *)
C7_ReferencesExpanded ==
  (pc = "xreturned" /\ input.terminated /\ "other" \notin Classes(input.tokens)) =>
    /\ r.value # NilSlice
    /\ Decoded \in {Decode(input.tokens, Code["'"]), Decode(input.tokens, Code["\\"])}

(* C8: an '&' that starts none of the five references is passed through:   *)
(* the decoded value holds it and the bytes after it as the run has them.  *)
C8_UnrecognizedPassedThrough ==
  (pc = "xreturned" /\ input.terminated /\ Classes(input.tokens) \subseteq {"plain", "other"}) =>
    /\ r.value # NilSlice
    /\ Decoded = Raw(input.tokens)

(* C9: during expansion start <= trail <= position; no byte at or after    *)
(* the read position is ever overwritten, and the decoded value is no      *)
(* longer than the run read.                                               *)
C9_TrailBehindRead ==
  pc \in {"xloop", "xreturned"} =>
    /\ r.xstart <= r.trail
    /\ r.trail <= r.position
    /\ Len(r.data) = Len(input.buf)
    /\ \A i \in (r.position + 1)..Len(r.data) : r.data[i] = input.buf[i]
    /\ (pc = "xreturned" /\ r.value # NilSlice) =>
         r.value.hi - r.value.lo <= r.position - input.start

(* C10: decoding a run without '&' is a no-op: the value returned is the   *)
(* raw bytes of the run and no byte of the buffer is modified.             *)
C10_PlainRunUnchanged ==
  (pc \in {"xloop", "xreturned"} /\ Classes(input.tokens) \subseteq {"plain"}) =>
    /\ r.data = input.buf
    /\ (pc = "xreturned" /\ input.terminated) =>
         /\ r.value = Slice(input.start, input.start + Len(Raw(input.tokens)))
         /\ Decoded = Raw(input.tokens)

C10_Witness ==
  /\ pc = "xreturned"
  /\ input.terminated
  /\ Len(input.tokens) >= 2
  /\ Classes(input.tokens) = {"plain"}
  /\ r.value # NilSlice

(***************************************************************************)
(* Properties of the traversals                                            *)
(***************************************************************************)
(* The textbook recursive pre-order walk: the node, then the walk of each  *)
(* of its children in order.                                               *)
RECURSIVE Preorder(_, _, _), PreorderAll(_, _, _)
Preorder(ns, n, fuel) ==
  IF fuel = 0 THEN << >> ELSE <<n>> \o PreorderAll(ns, Children(ns, n), fuel - 1)

PreorderAll(ns, seq, fuel) ==
  IF seq = << >> THEN << >>
  ELSE Preorder(ns, Head(seq), fuel) \o PreorderAll(ns, Tail(seq), fuel)

IsPrefix(a, b) == Len(a) <= Len(b) /\ SubSeq(b, 1, Len(a)) = a

NoDuplicates(seq) == \A i, j \in 1..Len(seq) : seq[i] = seq[j] => i = j

(* What the goroutine has sent so far: taken by the consumer or waiting in *)
(* the channel.                                                            *)
Delivered == result.received \o result.ret.buf

Walking(op) == pc \in {"walking", "ranged"} /\ result.op = op

(* C16: whatever the interleaving of the goroutine and the consumer, the   *)
(* nodes received from SendChildElements on the Document root of a parsed  *)
(* tree are the nodes of the textbook pre-order walk of the tree, each     *)
(* once and in that order, and then the channel is closed.                 *)
C16_PreorderDelivered ==
  (Walking("SendChildElements") /\ result.g = doc) =>
    LET walk == Preorder(r.nodes, doc, Len(r.nodes))
    IN  /\ IsPrefix(Delivered, walk)
        /\ NoDuplicates(Delivered)
        /\ {walk[i] : i \in 1..Len(walk)} = DOMAIN r.nodes
        /\ result.ret.closed => Delivered = walk
        /\ pc = "ranged" => result.received = walk

C16_Witness ==
  /\ pc = "ranged"
  /\ result.op = "SendChildElements"
  /\ result.g = doc
  /\ input.buf = DogRegister
  /\ Len(result.received) = 8

(* C17: SendCloseChildren(g) delivers exactly g's immediate children, from *)
(* firstChild to lastChild in sibling order, and none of their             *)
(* descendants; when g has no children it delivers nothing, no nil entry,  *)
(* and just closes the channel.                                            *)
C17_ImmediateChildrenDelivered ==
  /\ pc = "panicked" => "op" \notin DOMAIN result
  /\ Walking("SendCloseChildren") =>
       LET kids == Children(r.nodes, result.g)
       IN  /\ IsPrefix(Delivered, kids)
           /\ \A i \in 1..Len(Delivered) :
                Delivered[i] # 0 /\ r.nodes[Delivered[i]].Parent = result.g
           /\ kids # << >> =>
                /\ kids[1] = r.nodes[result.g].firstChild
                /\ kids[Len(kids)] = r.nodes[result.g].lastChild
           /\ result.ret.closed => Delivered = kids
           /\ pc = "ranged" => result.received = kids

C17_Witness ==
  /\ pc = "ranged"
  /\ result.op = "SendCloseChildren"
  /\ r.nodes[result.g].firstChild = 0
  /\ result.ret.closed
  /\ result.received = << >>

(* The nodes the goroutine has still to send: the rest of trav's walk, or  *)
(* the rest of the child chain.                                            *)
RECURSIVE travAll(_, _, _)
travAll(ns, todo, fuel) ==
  IF todo = << >> \/ fuel = 0 THEN << >>
  ELSE <<Head(todo)>> \o travAll(ns, trav(ns, todo), fuel - 1)

Unsent ==
  IF result.todo = << >> THEN << >>
  ELSE IF result.op = "SendCloseChildren"
  THEN Forward(r.nodes, Head(result.todo), Len(r.nodes))
  ELSE travAll(r.nodes, result.todo, Len(r.nodes))

(* The consumer has left its loop. *)
Stopped == pc = "walking" /\ result.stopped

(* The consumer has left its loop and more nodes are unsent than the       *)
(* channel has free slots.                                                 *)
Outnumbered ==
  Stopped /\ Len(Unsent) > result.ret.cap - Len(result.ret.buf)

(* The goroutine waits at a send on a full channel nobody receives from. *)
Blocked ==
  /\ Stopped
  /\ result.todo # << >>
  /\ Len(result.ret.buf) = result.ret.cap
  /\ ~result.ret.closed

(* C18 as stated: if the consumer stops receiving before the sequence is   *)
(* exhausted, the goroutine never reaches the end of the walk and never    *)
(* closes the channel.                                                     *)
C18_StoppedNeverClosed ==
  (Stopped /\ (result.ret.buf # << >> \/ result.todo # << >>)) =>
    (result.todo # << >> /\ ~result.ret.closed)

(* C18, amended: if the consumer stops receiving while more nodes are      *)
(* unsent than the channel (capacity 100 or 8) has free slots, the         *)
(* goroutine never reaches the end of the walk and never closes the        *)
(* channel, and it ends up waiting forever at a send on the full channel.  *)
C18_OutnumberedBlocksForever ==
  /\ [](Outnumbered => [](pc = "walking" /\ result.todo # << >> /\ ~result.ret.closed))
  /\ (Outnumbered ~> []Blocked)

C18_Witness ==
  /\ Blocked
  /\ result.op = "SendChildElements"
  /\ Len(result.ret.buf) = SendChildElementsCap
  /\ Len(result.received) = 1

(* CountChildren(g) has returned result.count. *)
Counted == pc = "ranged" /\ result.op = "CountChildren"

(* C19: CountChildren(g) is the number of g's immediate children, 0 for a  *)
(* node without children: g itself and deeper descendants are not counted. *)
C19_CountsImmediateChildren ==
  Counted => result.count = Len(Children(r.nodes, result.g))

(* C20: CountChildren on the Document root of a parsed tree is the number  *)
(* of nodes below the Document, the Document itself not counted: 3 for the *)
(* document of TestHandelingOfSpaces, 7 for the dogregister document.      *)
C20_CountsNodesBelowDocument ==
  (Counted /\ result.g = doc) =>
    /\ result.count = Len(Preorder(r.nodes, doc, Len(r.nodes))) - 1
    /\ input.buf = SpacesDocument => result.count = 3
    /\ input.buf = DogRegister => result.count = 7

(***************************************************************************)
(* Properties of CDATA sections and of the XML declaration                 *)
(***************************************************************************)
(* C29: an element whose content is a single CDATA section gets exactly    *)
(* one child, of kind Cdata with the section's text as value; the parser   *)
(* resumes behind the terminator, so no byte of it ends up in a Data node  *)
(* or in the element's own value.                                          *)
C29_CdataIsOnlyChild ==
  (Ended /\ input.kind = "cdata") =>
    /\ Succeeded
    /\ RootElement(r, doc) # 0
    /\ LET a == RootElement(r, doc)
           ch == Children(r.nodes, a)
       IN  /\ Len(ch) = 1
           /\ r.nodes[ch[1]].NodeType = "Cdata"
           /\ Content(r.data, r.nodes[ch[1]].Value) = input.text
           /\ Content(r.data, r.nodes[a].Value) = << >>

(* The attributes hanging in some node's chain. *)
AttributesInTree(s) == {i \in 1..Len(s.attrs) : s.attrs[i].Parent # 0}

(* C30: in a tree returned by a successful Parse every attribute, those of *)
(* the Declaration included, has its value set, and a declaration or an    *)
(* element with an attribute lacking '=', the opening or the closing quote *)
(* makes Parse fail.                                                       *)
C30_AttributesFullyRead ==
  /\ Succeeded => \A i \in AttributesInTree(r) : r.attrs[i].Value # NilSlice
  /\ (Ended /\ input.kind \in {"decl", "attrs"} /\ input.defect # "none") =>
       (pc = "returned" /\ result.err # NoErr)

(***************************************************************************)
(* The state machine of a caller that edits a tree                         *)
(***************************************************************************)
(* The caller holds a few nodes and attributes obtained from the arenas, a *)
(* node g (doc) with one attribute and a second node h with one child k,   *)
(* and calls the structural operations of g.  input records the last call  *)
(* and how many calls were made.                                           *)
MaxChildren == 3
MaxPoolAttrs == 3
MaxCalls == 5

TreePool == 1..MaxChildren
TreeG == MaxChildren + 1
TreeH == MaxChildren + 2
TreeK == MaxChildren + 3
TreeWheres == TreePool \cup {TreeK}

AttrPool == 1..MaxPoolAttrs
TreeAttr == MaxPoolAttrs + 1

RECURSIVE NewNodes(_, _)
NewNodes(s, n) == IF n = 0 THEN s ELSE NewNodes(newNode(s, "Element"), n - 1)

RECURSIVE NewAttributes(_, _)
NewAttributes(s, n) == IF n = 0 THEN s ELSE NewAttributes(attributeArenaGet(s), n - 1)

TreeStart ==
  AppendAttribute(
    AppendNode(NewAttributes(NewNodes(NewDefaultRunXML, TreeK), TreeAttr), TreeH, TreeK),
    TreeG, TreeAttr)

IsChild(ns, g, n) == \E i \in 1..Len(Children(ns, g)) : Children(ns, g)[i] = n

IsAttribute(s, g, a) ==
  LET chain == AttrForward(s.attrs, s.nodes[g].firstAttribute, Len(s.attrs))
  IN  \E i \in 1..Len(chain) : chain[i] = a

(* The record of a call: the operation, its arguments, the number of calls *)
(* so far, and whether this call and all before it met their               *)
(* preconditions (where is a child, or an attribute, of g).                *)
Call(op, where, child) ==
  [kind |-> "call", op |-> op, where |-> where, child |-> child,
   calls |-> input.calls + 1,
   lawful |-> /\ input.lawful
              /\ op \in {"RemoveNode", "InsertNode"} => IsChild(r.nodes, doc, where)
              /\ op = "InsertAttribute" => IsAttribute(r, doc, where)]

InitTree ==
  /\ r = TreeStart
  /\ pc = "tree"
  /\ doc = TreeG
  /\ input = [kind |-> "call", op |-> "none", where |-> 0, child |-> 0,
              calls |-> 0, lawful |-> TRUE]
  /\ result = NoResult

(* The nodes the caller may hand in as a new child of g: the nodes it holds *)
(* that are not in g's chain, never inserted yet or removed from g earlier. *)
Detached(c) == c \in TreePool /\ ~IsChild(r.nodes, doc, c)

DetachedAttribute(a) == a \in AttrPool /\ ~IsAttribute(r, doc, a)

CanCall == pc = "tree" /\ input.calls < MaxCalls

(* Where a call leaves the caller: a panic ends the program. *)
TreeEnd(s, call) ==
  /\ r' = s
  /\ pc' = IF Faulted(s) THEN "panicked" ELSE "tree"
  /\ input' = call
  /\ UNCHANGED <<doc, result>>

CallAppendNode(child) ==
  /\ CanCall
  /\ Detached(child)
  /\ TreeEnd(AppendNode(r, doc, child), Call("AppendNode", 0, child))

CallPrependNode(child) ==
  /\ CanCall
  /\ Detached(child)
  /\ TreeEnd(PrependNode(r, doc, child), Call("PrependNode", 0, child))

CallInsertNode(where, child) ==
  /\ CanCall
  /\ Detached(child)
  /\ where # child
  /\ TreeEnd(InsertNode(r, doc, where, child), Call("InsertNode", where, child))

CallRemoveFirstNode ==
  /\ CanCall
  /\ TreeEnd(RemoveFirstNode(r, doc), Call("RemoveFirstNode", 0, 0))

CallRemoveLastNode ==
  /\ CanCall
  /\ TreeEnd(RemoveLastNode(r, doc), Call("RemoveLastNode", 0, 0))

CallRemoveNode(where) ==
  /\ CanCall
  /\ TreeEnd(RemoveNode(r, doc, where), Call("RemoveNode", where, 0))

CallRemoveAllNodes ==
  /\ CanCall
  /\ TreeEnd(RemoveAllNodes(r, doc), Call("RemoveAllNodes", 0, 0))

NextTree ==
  \/ \E child \in TreePool : CallAppendNode(child)
  \/ \E child \in TreePool : CallPrependNode(child)
  \/ \E where \in TreeWheres, child \in TreePool : CallInsertNode(where, child)
  \/ CallRemoveFirstNode
  \/ CallRemoveLastNode
  \/ \E where \in TreeWheres : CallRemoveNode(where)
  \/ CallRemoveAllNodes

SpecTree == InitTree /\ [][NextTree]_vars

(* The same caller editing the attribute chain of g. *)
CallAppendAttribute(a) ==
  /\ CanCall
  /\ DetachedAttribute(a)
  /\ TreeEnd(AppendAttribute(r, doc, a), Call("AppendAttribute", 0, a))

CallPrependAttribute(a) ==
  /\ CanCall
  /\ DetachedAttribute(a)
  /\ TreeEnd(PrependAttribute(r, doc, a), Call("PrependAttribute", 0, a))

CallInsertAttribute(where, a) ==
  /\ CanCall
  /\ DetachedAttribute(a)
  /\ where # a
  /\ TreeEnd(InsertAttribute(r, doc, where, a), Call("InsertAttribute", where, a))

NextAttributes ==
  \/ \E a \in AttrPool : CallAppendAttribute(a)
  \/ \E a \in AttrPool : CallPrependAttribute(a)
  \/ \E where \in AttrPool \cup {TreeAttr}, a \in AttrPool : CallInsertAttribute(where, a)

SpecAttributes == InitTree /\ [][NextAttributes]_vars

(***************************************************************************)
(* Properties of the structural operations                                 *)
(***************************************************************************)
(* The step is a call of one of the operations ops. *)
Calls(ops) == input' # input /\ input'.op \in ops

(* C24: RemoveNode(where) and InsertNode(where, child) called on g with a  *)
(* where that is not a child of g at the time of the call, be it a child   *)
(* of another node or a node removed from g earlier, abort and leave every *)
(* link unchanged.                                                         *)
C24_NonChildAborts ==
  [][(Calls({"RemoveNode", "InsertNode"}) /\ ~IsChild(r.nodes, doc, input'.where))
       => (pc' = "panicked" /\ r'.nodes = r.nodes)]_vars

(* C25: after any sequence of structural calls on g whose preconditions    *)
(* were met, nodes removed from g being inserted again or not, g's child   *)
(* chain is a consistent acyclic doubly-linked list.                       *)
C25_ChainStaysConsistent ==
  (pc = "tree" /\ input.lawful) =>
    LET ns == r.nodes
        ch == Children(ns, doc)
    IN  /\ (ns[doc].firstChild = 0) <=> (ns[doc].lastChild = 0)
        /\ ns[doc].firstChild # 0 => ns[ns[doc].firstChild].prev = 0
        /\ ns[doc].lastChild # 0 => ns[ns[doc].lastChild].next = 0
        /\ \A i \in 1..Len(ch) :
             /\ ns[ch[i]].next # 0 => ns[ns[ch[i]].next].prev = ch[i]
             /\ ns[ch[i]].prev # 0 => ns[ns[ch[i]].prev].next = ch[i]
        /\ NoDuplicates(ch)

(* The list operations on sequences of nodes. *)
Without(seq, n) == SelectSeq(seq, LAMBDA x : x # n)

Position(seq, n) == CHOOSE i \in 1..Len(seq) : seq[i] = n

InsertBefore(seq, where, n) ==
  SubSeq(seq, 1, Position(seq, where) - 1) \o <<n>>
  \o SubSeq(seq, Position(seq, where), Len(seq))

ListOperation(seq, call) ==
  CASE call.op = "AppendNode" -> seq \o <<call.child>>
    [] call.op = "PrependNode" -> <<call.child>> \o seq
    [] call.op = "InsertNode" -> InsertBefore(seq, call.where, call.child)
    [] call.op = "RemoveFirstNode" -> IF seq = << >> THEN seq ELSE Tail(seq)
    [] call.op = "RemoveLastNode" ->
         IF seq = << >> THEN seq ELSE SubSeq(seq, 1, Len(seq) - 1)
    [] call.op = "RemoveNode" -> Without(seq, call.where)
    [] call.op = "RemoveAllNodes" -> << >>

NodeOperations ==
  {"AppendNode", "PrependNode", "InsertNode", "RemoveFirstNode", "RemoveLastNode",
   "RemoveNode", "RemoveAllNodes"}

(* C28: read as the forward sequence of children from firstChild, every    *)
(* structural call on g whose preconditions are met is the matching list   *)
(* operation; RemoveAllNodes leaves the attribute chain unchanged and an    *)
(* inserted child gets g as Parent.                                        *)
C28_OperationsAreListOperations ==
  [][(Calls(NodeOperations) /\ input'.lawful) =>
       /\ pc' = "tree"
       /\ Children(r'.nodes, doc) = ListOperation(Children(r.nodes, doc), input')
       /\ input'.child # 0 => r'.nodes[input'.child].Parent = doc
       /\ input'.op = "RemoveAllNodes" =>
            /\ r'.attrs = r.attrs
            /\ r'.nodes[doc].firstAttribute = r.nodes[doc].firstAttribute
            /\ r'.nodes[doc].lastAttribute = r.nodes[doc].lastAttribute]_vars

(* C26: after any sequence of AppendAttribute, PrependAttribute and        *)
(* InsertAttribute calls on g, every attribute reachable from              *)
(* g.firstAttribute has g as Parent, and g's own Parent is what it was     *)
(* before the calls.                                                       *)
C26_AttributeParents ==
  (pc = "tree" /\ input.lawful) =>
    /\ \A a \in DOMAIN r.attrs : IsAttribute(r, doc, a) => r.attrs[a].Parent = doc
    /\ r.nodes[doc].Parent = TreeStart.nodes[doc].Parent

(***************************************************************************)
(* The arenas                                                              *)
(***************************************************************************)
maxsize == 20000
startsize == 100

(* A nodeArena or attributeArena value: the slabs it has allocated, by     *)
(* capacity, and the length of its free slice, which lies at the front of  *)
(* the last slab.  The zero value is the nil slice.                        *)
NewArena == [slabs |-> << >>, len |-> 0]

(* The arenas of a program with two parser instances: the package's node   *)
(* arena na, from which newNode draws for every instance, and the          *)
(* attributeArena field of each instance.                                  *)
ArenaNames == {"na", "attributeArena1", "attributeArena2"}

(* The package variable that holds the capacity of an arena's next slab. *)
SizeOf(a) == IF a = "na" THEN "currentSize" ELSE "currAttrSize"

(* The package state at program start; addr is what the last get returned: *)
(* the slots lo..hi-1 of a slab.                                           *)
NewArenas ==
  [size |-> [v \in {"currentSize", "currAttrSize"} |-> startsize],
   arenas |-> [a \in ArenaNames |-> NewArena],
   addr |-> << >>]

Slots(a, slab, lo, hi) == [arena |-> a, slab |-> slab, lo |-> lo, hi |-> hi]

(* get() that returns the last slot of the free slice and leaves it there. *)
getKeepsSlot(m, a) ==
  LET grown == IF m.arenas[a].len = 0
               THEN [m EXCEPT !.arenas[a] = [slabs |-> Append(@.slabs, m.size[SizeOf(a)]),
                                             len |-> m.size[SizeOf(a)]],
                              !.size[SizeOf(a)] = Min(maxsize, @ * 2)]
               ELSE m
      n == grown.arenas[a].len
  IN  [grown EXCEPT !.addr = <<Slots(a, Len(grown.arenas[a].slabs), n - 1, n)>>]

(* One call of get() on arena a. *)
get(m, a) ==
  LET grown == IF m.arenas[a].len = 0
               THEN [m EXCEPT !.arenas[a] = [slabs |-> Append(@.slabs, m.size[SizeOf(a)]),
                                             len |-> m.size[SizeOf(a)]],
                              !.size[SizeOf(a)] = Min(maxsize, @ * 2)]
               ELSE m
      n == grown.arenas[a].len
  IN  [grown EXCEPT !.arenas[a].len = n - 1,
                    !.addr = <<Slots(a, Len(grown.arenas[a].slabs), n - 1, n)>>]

(* k calls of get() on a free slice of at least k slots: none allocates,   *)
(* each takes the last slot of what the one before left.                   *)
getMany(m, a, k) ==
  LET n == m.arenas[a].len
  IN  [m EXCEPT !.arenas[a].len = n - k,
                !.addr = <<Slots(a, Len(m.arenas[a].slabs), n - k, n)>>]

(* The state machine of a program that draws from the arenas.  doc is not  *)
(* used; result holds, for every slab of every arena, the lowest slot      *)
(* handed out so far (the capacity when none was).                         *)
MaxGetCalls == 10

InitArena ==
  /\ r = NewArenas
  /\ pc = "arena"
  /\ doc = 0
  /\ input = [kind |-> "get", arena |-> "none", n |-> 0, calls |-> 0]
  /\ result = [a \in ArenaNames |-> << >>]

(* The slots were not handed out before. *)
NeverHandedOut(handed, slots) ==
  slots.slab <= Len(handed[slots.arena]) => slots.hi <= handed[slots.arena][slots.slab]

HandOut(handed, slots) ==
  IF slots.slab <= Len(handed[slots.arena])
  THEN [handed EXCEPT ![slots.arena][slots.slab] = Min(@, slots.lo)]
  ELSE [handed EXCEPT ![slots.arena] = Append(@, slots.lo)]

ArenaEnd(m, a, n, returned) ==
  /\ r' = [m EXCEPT !.addr = returned]
  /\ input' = [kind |-> "get", arena |-> a, n |-> n, calls |-> input.calls + 1]
  /\ result' = IF Len(returned) = 1 THEN HandOut(result, returned[1])
               ELSE HandOut(HandOut(result, returned[1]), returned[2])
  /\ UNCHANGED <<pc, doc>>

(* One get(). *)
Get(a) ==
  /\ pc = "arena"
  /\ input.calls < MaxGetCalls
  /\ ArenaEnd(get(r, a), a, 1, get(r, a).addr)

(* The caller draws every slot left in the free slice and one more: the   *)
(* last call allocates the next slab.                                     *)
GetPastSlab(a) ==
  /\ pc = "arena"
  /\ input.calls < MaxGetCalls
  /\ r.arenas[a].len > 0
  /\ LET drained == getMany(r, a, r.arenas[a].len)
     IN  ArenaEnd(get(drained, a), a, r.arenas[a].len + 1,
                  drained.addr \o get(drained, a).addr)

NextArena ==
  \/ \E a \in ArenaNames : Get(a)
  \/ \E a \in ArenaNames : GetPastSlab(a)

SpecArena == InitArena /\ [][NextArena]_vars

(***************************************************************************)
(* Properties of the arenas                                                *)
(***************************************************************************)
(* C21: no get() hands out a slot that was handed out before, and no       *)
(* get(), one that allocates a slab included, moves or resizes the slabs   *)
(* that hold the slots handed out earlier.                                 *)
C21_SlotsHandedOutOnce ==
  [][/\ \A i \in 1..Len(r'.addr) : NeverHandedOut(result, r'.addr[i])
     /\ Len(r'.addr) = 2 => r'.addr[1] # r'.addr[2]
     /\ \A a \in ArenaNames : IsPrefix(r.arenas[a].slabs, r'.arenas[a].slabs)]_vars

(* A get() on a free slice with slots left and one that allocated the      *)
(* second slab of the arena have both happened.                            *)
C21_Witness ==
  /\ pc = "arena"
  /\ \E a \in ArenaNames :
       /\ Len(r.arenas[a].slabs) >= 2
       /\ result[a][1] = 0
       /\ result[a][2] < r.arenas[a].slabs[2] - 1

(* The capacity the k-th slab of an arena is to have. *)
SlabCapacity(k) == Min(startsize * 2^(k - 1), maxsize)

(* C22: the k-th slab of every arena has capacity min(100 * 2^(k-1),       *)
(* 20000), whatever the other arenas have allocated, and an arena has a    *)
(* further slab only when every slot of the one before was handed out.     *)
C22_SlabCapacities ==
  pc = "arena" =>
    \A a \in ArenaNames :
      \A k \in 1..Len(r.arenas[a].slabs) :
        /\ r.arenas[a].slabs[k] = SlabCapacity(k)
        /\ k < Len(r.arenas[a].slabs) => result[a][k] = 0

(***************************************************************************)
(* The state machine of two concurrent Parse calls                         *)
(***************************************************************************)
(* Two goroutines, each in the Parse of its own RunXML instance on its own *)
(* buffer, call newNode.  newNode draws from the package's arena na, and   *)
(* na.get() reads and writes na and currentSize without synchronisation,   *)
(* so the statements of the two calls interleave.  r holds the package     *)
(* variables, the slabs allocated and who wrote each variable; pc the      *)
(* statement each goroutine stands at; doc each goroutine's locals; result *)
(* the node slots each Parse has received.                                 *)
Parsers == {1, 2}
MaxNewNodes == 2

SharedVariables == {"na", "currentSize"}

InitConcurrent ==
  /\ r = [currentSize |-> startsize,
          na |-> [slab |-> 0, len |-> 0],
          slabs |-> << >>,
          writers |-> [v \in SharedVariables |-> {}]]
  /\ pc = [p \in Parsers |-> "parse"]
  /\ doc = [p \in Parsers |-> [n |-> << >>, calls |-> 0]]
  /\ input = [kind |-> "concurrent"]
  /\ result = [p \in Parsers |-> {}]

(* A run-time panic in one goroutine ends the program. *)
Crash ==
  /\ pc' = [p \in Parsers |-> "panicked"]
  /\ UNCHANGED <<r, doc, input, result>>

(* Parse reaches a newNode call: n := na.get(). *)
NewNodeCall(p) ==
  /\ pc[p] = "parse"
  /\ doc[p].calls < MaxNewNodes
  /\ pc' = [pc EXCEPT ![p] = "len"]
  /\ UNCHANGED <<r, doc, input, result>>

(* The test of the free slice's length: if len == 0. *)
GetLen(p) ==
  /\ pc[p] = "len"
  /\ pc' = [pc EXCEPT ![p] = IF r.na.len = 0 THEN "make" ELSE "last"]
  /\ UNCHANGED <<r, doc, input, result>>

(* The free slice is set to a new slab: make([]GenericNode, currentSize). *)
GetMake(p) ==
  /\ pc[p] = "make"
  /\ r' = [r EXCEPT !.slabs = Append(@, r.currentSize),
                    !.na = [slab |-> Len(r.slabs) + 1, len |-> r.currentSize],
                    !.writers["na"] = @ \cup {p}]
  /\ pc' = [pc EXCEPT ![p] = "grow"]
  /\ UNCHANGED <<doc, input, result>>

(* currentSize *= 2; currentSize = min(maxsize, currentSize) *)
GetGrow(p) ==
  /\ pc[p] = "grow"
  /\ r' = [r EXCEPT !.currentSize = Min(maxsize, @ * 2),
                    !.writers["currentSize"] = @ \cup {p}]
  /\ pc' = [pc EXCEPT ![p] = "last"]
  /\ UNCHANGED <<doc, input, result>>

(* n := the address of the last slot of the free slice. *)
GetLast(p) ==
  /\ pc[p] = "last"
  /\ IF r.na.len = 0 THEN Crash
     ELSE /\ doc' = [doc EXCEPT ![p].n = <<r.na.slab, r.na.len - 1>>]
          /\ pc' = [pc EXCEPT ![p] = "shrink"]
          /\ UNCHANGED <<r, input, result>>

(* The free slice is shortened by one slot; return n.  newNode hands the    *)
(* slot to Parse.                                                          *)
GetShrink(p) ==
  /\ pc[p] = "shrink"
  /\ IF r.na.len = 0 THEN Crash
     ELSE /\ r' = [r EXCEPT !.na.len = @ - 1, !.writers["na"] = @ \cup {p}]
          /\ result' = [result EXCEPT ![p] = @ \cup {doc[p].n}]
          /\ doc' = [doc EXCEPT ![p].calls = @ + 1]
          /\ pc' = [pc EXCEPT ![p] = "parse"]
          /\ UNCHANGED input

NextConcurrent ==
  \/ \E p \in Parsers : NewNodeCall(p)
  \/ \E p \in Parsers : GetLen(p)
  \/ \E p \in Parsers : GetMake(p)
  \/ \E p \in Parsers : GetGrow(p)
  \/ \E p \in Parsers : GetLast(p)
  \/ \E p \in Parsers : GetShrink(p)

SpecConcurrent == InitConcurrent /\ [][NextConcurrent]_vars

(* C23: two Parse calls running concurrently on two instances never        *)
(* receive the same node slot, and no package variable (free slice,        *)
(* capacity counter) is written by both.                                   *)
C23_ParsesShareNothing ==
  /\ result[1] \cap result[2] = {}
  /\ \A v \in SharedVariables : Cardinality(r.writers[v]) <= 1

(***************************************************************************)
(* The state machine of a program that parses twice                        *)
(***************************************************************************)
(* Documents for the two calls: with attributes, text and children, empty, *)
(* unclosed and cut inside an attribute.                                   *)
ReparseBuffers ==
  {Bytes(<<"<", "a", " ", "b", "=", "'", "1", "'", ">", "x", "<", "c", "/", ">",
           "<", "/", "a", ">">>),
   Bytes(<<"<", "a", " ", "c", "=", "\"", "&", "l", "t", ";", "\"", "/", ">">>),
   Bytes(<<"<", "a", "/", ">", "<", "b", "/", ">">>),
   Bytes(<<"<", "a", ">", "<", "b", ">">>),
   Bytes(<<"<", "a", " ", "b", "=", "'">>),
   << >>}

ReparseInputs == {[buf |-> b, forest |-> << >>, kind |-> "raw"] : b \in ReparseBuffers}

(* The instance a second Parse runs on: the same one, or a new one, which  *)
(* has its own attribute arena and draws its nodes, as every instance,     *)
(* from the package's arena na.                                            *)
Instance(other) ==
  IF other THEN [NewDefaultRunXML EXCEPT !.nodes = r.nodes] ELSE r

(* A second Parse after a successful one whose tree the caller still       *)
(* holds: input remembers that tree as it was returned.                    *)
ParseAgain(in, other) ==
  /\ pc = "returned"
  /\ result.err = NoErr
  /\ input.kind = "raw"
  /\ input' = [buf |-> in.buf, forest |-> << >>, kind |-> "again", other |-> other,
               earlier |-> [nodes |-> r.nodes, attrs |-> r.attrs, data |-> r.data,
                            root |-> result.node]]
  /\ LET s == parseBegin(Instance(other), in.buf)
     IN  IF Faulted(s) THEN Abort(s)
         ELSE /\ r' = s
              /\ doc' = s.node
              /\ pc' = "loop"
              /\ UNCHANGED result

NextReparse ==
  \/ \E in \in ReparseInputs : ParseBegin(in)
  \/ \E in \in ReparseInputs, other \in BOOLEAN : ParseAgain(in, other)
  \/ ParseIter
  \/ ParseReturn

SpecReparse == Init /\ [][NextReparse]_vars

(* The links of a node. *)
NodeLinks(n) == {n.Parent, n.firstChild, n.lastChild, n.prev, n.next}

(* C27: during and after a later Parse, on the same instance or another,   *)
(* every node and attribute of the tree an earlier successful Parse        *)
(* returned is as it was returned, and no slot of it is handed out again:  *)
(* the nodes of the later call are other slots with no link into the       *)
(* earlier tree.                                                           *)
C27_EarlierTreeUntouched ==
  input.kind = "again" =>
    LET old == input.earlier
    IN  /\ Len(r.nodes) >= Len(old.nodes)
        /\ SubSeq(r.nodes, 1, Len(old.nodes)) = old.nodes
        /\ ~input.other =>
             /\ Len(r.attrs) >= Len(old.attrs)
             /\ SubSeq(r.attrs, 1, Len(old.attrs)) = old.attrs
        /\ doc > Len(old.nodes)
        /\ \A i \in (Len(old.nodes) + 1)..Len(r.nodes) :
             NodeLinks(r.nodes[i]) \cap 1..Len(old.nodes) = {}

(* A second Parse on the same instance has returned a tree with an         *)
(* attribute while the first tree, also with an attribute, is held.        *)
C27_Witness ==
  /\ input.kind = "again"
  /\ ~input.other
  /\ pc = "returned"
  /\ result.err = NoErr
  /\ Len(input.earlier.attrs) > 0
  /\ Len(r.attrs) > Len(input.earlier.attrs)
  /\ Len(r.nodes) > Len(input.earlier.nodes) + 1

====
